---- MODULE Spec2Model ----
(***************************************************************************)
(* Model of the MonarchMoney MCP server: the session manager               *)
(* (initialize_client), the tool dispatcher (call_tool) and the rule       *)
(* engine inside the apply_transaction_rules branch of call_tool.          *)
(*                                                                         *)
(* The program is single-flow asyncio code: a coroutine runs without       *)
(* interruption from one `await` of an upstream client call to the next.   *)
(* Each action of the model is therefore one such run: the entry of a      *)
(* coroutine up to its first await (or its return), or the resumption of a *)
(* suspended coroutine when the awaited upstream call completes (with a    *)
(* result or with an exception) up to the next await (or its return).      *)
(*                                                                         *)
(* Strings that the code inspects (descriptions, merchant names, needles)  *)
(* are sequences of one-character strings; amounts are integers in         *)
(* thousandths; a Python dict is a TLA+ function whose DOMAIN is its key    *)
(* set, so that `k in d` is `k \in DOMAIN d`.                              *)
(***************************************************************************)
EXTENDS Integers, Sequences, FiniteSets, TLC

VARIABLES
    variant,       \* which server module is loaded: "server" or "server_static"
    env,           \* the process environment: what os.getenv returns for each name
    main_pc,       \* position of main(): "start" (not run: the module may be used by
                   \* a script that imported it), "init", "serving", "exited"
    mm_client,     \* the global client handle: None or a client object
    session_file,  \* content of ~/.monarchmoney_session
    init_pc,       \* position of initialize_client
    init_calls,    \* client calls made by the last initialize_client, in order
    tool_pc,       \* position of call_tool: "idle", "await", "returned"
    request,       \* name and arguments of the call_tool in progress (or the last one
                   \* since initialize_client was last entered)
    frame,         \* locals of a suspended call_tool
    calls,         \* upstream calls issued by the call_tool in progress (or the last one)
    response,      \* what call_tool returned (nothing while it is in progress)
    pair,          \* observer of SpecPair: the inputs both runs share and the counts
                   \* each run reported (off in the other specifications)
    monitor,       \* the ProductionMonitor object and the position of its coroutines
                   \* (off while no monitor was constructed)
    converted      \* an object handed to convert_dates_to_strings and what it returned
                   \* (off in the specifications of the server)

vars == <<variant, env, main_pc, mm_client, session_file, init_pc, init_calls,
          tool_pc, request, frame, calls, response, pair, monitor, converted>>

None == "None"

-----------------------------------------------------------------------------
(* Bounds of the model *)

\* longest rules list of one apply_transaction_rules request
MaxRules == 2
\* largest transaction batch get_transactions returns
MaxTxns == 2

-----------------------------------------------------------------------------
(* Strings *)

\* str.lower() on one character of the model's alphabet
LowerChar(c) ==
    CASE c = "C" -> "c"
      [] c = "X" -> "x"
      [] c = "O" -> "o"
      [] OTHER -> c

\* str.lower()
Lower(s) == [i \in 1..Len(s) |-> LowerChar(s[i])]

\* Python's `needle in hay` on strings
Contains(needle, hay) ==
    \E k \in 0..(Len(hay) - Len(needle)) :
        \A i \in 1..Len(needle) : hay[k + i] = needle[i]

\* dict.get(key, default)
Get(d, key, default) == IF key \in DOMAIN d THEN d[key] ELSE default

\* JSON null inside upstream data (Python None as a dict value)
Null == [null |-> TRUE]

\* Python truthiness of transaction.get("merchant"): None and {} are falsy
Truthy(v) == v # Null /\ DOMAIN v # {}

\* abs()
Abs(n) == IF n < 0 THEN -n ELSE n

-----------------------------------------------------------------------------
(* Values that cross the JSON boundary: tagged so that a date can be told    *)
(* from a string, as isinstance() does.                                      *)

Date(y, m, d) == [kind |-> "date", y |-> y, m |-> m, d |-> d]
Str(s) == [kind |-> "str", s |-> s]
Dict(f) == [kind |-> "dict", items |-> f]
List(q) == [kind |-> "list", items |-> q]
DateTime(y, m, d, h) == [kind |-> "datetime", y |-> y, m |-> m, d |-> d, h |-> h]
TupleOf(q) == [kind |-> "tuple", items |-> q]
Number(n) == [kind |-> "int", n |-> n]

\* date.isoformat(): "YYYY-MM-DD" as its parts; datetime.isoformat() adds "T" and
\* the time
IsoFormat(v) ==
    IF v.kind = "datetime"
    THEN Str(<<v.y, "-", v.m, "-", v.d, "T", v.h>>)
    ELSE Str(<<v.y, "-", v.m, "-", v.d>>)

\* a slip in the walk: no branch for tuples
RECURSIVE convert_dates_to_strings_notuple(_)
convert_dates_to_strings_notuple(obj) ==
    CASE obj.kind \in {"date", "datetime"} -> IsoFormat(obj)
      [] obj.kind = "dict" ->
            Dict([key \in DOMAIN obj.items |->
                     convert_dates_to_strings_notuple(obj.items[key])])
      [] obj.kind = "list" ->
            List([i \in 1..Len(obj.items) |->
                     convert_dates_to_strings_notuple(obj.items[i])])
      [] OTHER -> obj

RECURSIVE convert_dates_to_strings(_)
convert_dates_to_strings(obj) ==
    CASE obj.kind \in {"date", "datetime"} -> IsoFormat(obj)
      [] obj.kind = "dict" ->
            Dict([key \in DOMAIN obj.items |-> convert_dates_to_strings(obj.items[key])])
      [] obj.kind = "list" ->
            List([i \in 1..Len(obj.items) |-> convert_dates_to_strings(obj.items[i])])
      [] obj.kind = "tuple" ->
            TupleOf([i \in 1..Len(obj.items) |-> convert_dates_to_strings(obj.items[i])])
      [] OTHER -> obj

\* isinstance(obj, (date, datetime)) anywhere inside obj
RECURSIVE HasDate(_)
HasDate(obj) ==
    CASE obj.kind \in {"date", "datetime"} -> TRUE
      [] obj.kind = "dict" -> \E key \in DOMAIN obj.items : HasDate(obj.items[key])
      [] obj.kind \in {"list", "tuple"} ->
            \E i \in 1..Len(obj.items) : HasDate(obj.items[i])
      [] OTHER -> FALSE

\* json.dumps(obj, default=str) of server.py: the encoder walks dicts and lists and
\* replaces what it cannot encode (a date) by str() of it, "YYYY-MM-DD" for a date
RECURSIVE DumpsDefaultStr(_)
DumpsDefaultStr(obj) ==
    CASE obj.kind = "date" -> Str(<<obj.y, "-", obj.m, "-", obj.d>>)
      [] obj.kind = "datetime" -> Str(<<obj.y, "-", obj.m, "-", obj.d, " ", obj.h>>)
      [] obj.kind = "dict" ->
            Dict([key \in DOMAIN obj.items |-> DumpsDefaultStr(obj.items[key])])
      [] obj.kind \in {"list", "tuple"} ->
            List([i \in 1..Len(obj.items) |-> DumpsDefaultStr(obj.items[i])])
      [] OTHER -> obj

-----------------------------------------------------------------------------
(* The tool catalog and the dispatch table *)

\* names declared by list_tools() of server.py
ServerTools ==
    {"get_accounts", "get_transactions", "get_budgets", "get_cashflow",
     "get_transaction_categories", "create_transaction", "update_transaction",
     "refresh_accounts"}

\* names declared by list_tools() of server_static.py
StaticTools ==
    ServerTools \cup
    {"create_transaction_category", "delete_transaction_category",
     "get_transaction_category_groups", "delete_transaction",
     "get_transaction_details", "get_recurring_transactions", "get_institutions",
     "create_manual_account", "update_account", "delete_account",
     "set_budget_amount", "get_subscription_details", "get_merchants",
     "get_transaction_tags", "create_transaction_tag", "set_transaction_tags",
     "apply_transaction_rules"}

\* the names call_tool's if/elif chain recognises in the loaded module
Catalog(v) == IF v = "server" THEN ServerTools ELSE StaticTools

\* a slip: the transaction-details branch awaits the listing method
UpstreamOp_alias(name) ==
    CASE name = "refresh_accounts" -> "request_accounts_refresh"
      [] name \in {"apply_transaction_rules", "get_transaction_details"} -> "get_transactions"
      [] name = "get_budgets" -> "get_cashflow"
      [] OTHER -> name

\* the client method each branch of call_tool awaits first
UpstreamOp(name) ==
    CASE name = "refresh_accounts" -> "request_accounts_refresh"
      [] name = "apply_transaction_rules" -> "get_transactions"
      [] OTHER -> name

\* the argument keys a branch parses with datetime.strptime(..., "%Y-%m-%d")
DateKeys(name) ==
    CASE name \in {"get_transactions", "get_budgets", "get_cashflow",
                   "apply_transaction_rules"} -> {"start_date", "end_date"}
      [] name \in {"create_transaction", "update_transaction"} -> {"date"}
      [] name = "set_budget_amount" -> {"start_date"}
      [] OTHER -> {}

\* date strings a caller may send; the schema only asks for a string
GoodDate == "2024-01-15"
BadDate == "next week"

\* datetime.strptime(s, "%Y-%m-%d") raises ValueError unless s has that format
StrptimeRaises(s) == s # GoodDate

\* the branch raises ValueError while assembling its keyword arguments
ArgumentsRaise(name, arguments) ==
    \E k \in DateKeys(name) \cap DOMAIN arguments : StrptimeRaises(arguments[k])

-----------------------------------------------------------------------------
(* The rule engine: the apply_transaction_rules branch of call_tool *)

\* Python None where a string is expected (no real string has this character)
NoneStr == <<None>>

\* the tolerance 0.01 of amount_equals, in thousandths
Tolerance == 10

\* float(transaction.get("amount", 0)), in thousandths
Amount(transaction) == Get(transaction, "amount", 0)

\* Pairs <<amount, target>> of the model, exactly `Tolerance` apart, whose IEEE-754
\* double difference abs(float(amount) - target) comes out above the double 0.01:
\* abs(1.01 - 1.0) = 0.010000000000000009, while abs(50.01 - 50.0) =
\* 0.00999999999999801 and abs(0.01 - 0) = 0.01.
RoundsAboveTolerance == {<<1010, 1000>>}

\* abs(float(amount) - target) > 0.01 as Python evaluates it on doubles
ExceedsTolerance(amount, target) ==
    IF Abs(amount - target) = Tolerance
    THEN <<amount, target>> \in RoundsAboveTolerance
    ELSE Abs(amount - target) > Tolerance

\* the name of the transaction's merchant, "" when the merchant is missing, None or {}
MerchantName(transaction) ==
    IF "merchant" \in DOMAIN transaction /\ Truthy(transaction.merchant)
    THEN Get(transaction.merchant, "name", <<>>)
    ELSE <<>>

\* the five condition checks, each as the code tests it (TRUE: the check fails
\* and sets matched = False)
FailsDescription(conditions, transaction) ==
    ~Contains(Lower(conditions.description_contains),
              Lower(Get(transaction, "description", <<>>)))

FailsMerchant(conditions, transaction) ==
    ~Contains(Lower(conditions.merchant_contains), Lower(MerchantName(transaction)))

FailsEquals(conditions, transaction) ==
    ExceedsTolerance(Amount(transaction), conditions.amount_equals)

\* a slip: `<` for `<=`, an amount equal to the target passes
FailsGreater_nonstrict(conditions, transaction) ==
    Amount(transaction) < conditions.amount_greater_than

FailsGreater(conditions, transaction) ==
    Amount(transaction) <= conditions.amount_greater_than

FailsLess(conditions, transaction) ==
    Amount(transaction) >= conditions.amount_less_than

\* a slip in the last check: `matched = <test>` instead of `if not <test>: matched = False`
RuleMatches_overwrite(rule, transaction) ==
    LET conditions == rule.conditions
        m1 == IF "description_contains" \in DOMAIN conditions
                 /\ FailsDescription(conditions, transaction) THEN FALSE ELSE TRUE
        m2 == IF "merchant_contains" \in DOMAIN conditions
                 /\ FailsMerchant(conditions, transaction) THEN FALSE ELSE m1
        m3 == IF "amount_equals" \in DOMAIN conditions
                 /\ FailsEquals(conditions, transaction) THEN FALSE ELSE m2
        m4 == IF "amount_greater_than" \in DOMAIN conditions
                 /\ FailsGreater(conditions, transaction) THEN FALSE ELSE m3
    IN  IF "amount_less_than" \in DOMAIN conditions
        THEN ~FailsLess(conditions, transaction)
        ELSE m4

\* a slip before the checks: `matched = False` to start with, so that a rule
\* whose conditions hold nothing to check never matches
RuleMatches_initfalse(rule, transaction) ==
    LET conditions == rule.conditions
    IN  /\ DOMAIN conditions # {}
        /\ ("description_contains" \in DOMAIN conditions
                => ~FailsDescription(conditions, transaction))
        /\ ("merchant_contains" \in DOMAIN conditions
                => ~FailsMerchant(conditions, transaction))
        /\ ("amount_equals" \in DOMAIN conditions => ~FailsEquals(conditions, transaction))
        /\ ("amount_greater_than" \in DOMAIN conditions
                => ~FailsGreater(conditions, transaction))
        /\ ("amount_less_than" \in DOMAIN conditions => ~FailsLess(conditions, transaction))

\* a slip: a conditions key outside the five predicate kinds fails the rule
RuleMatches_strict(rule, transaction) ==
    LET conditions == rule.conditions
    IN  /\ DOMAIN conditions \subseteq
              {"description_contains", "merchant_contains", "amount_equals",
               "amount_greater_than", "amount_less_than"}
        /\ ("description_contains" \in DOMAIN conditions
                => ~FailsDescription(conditions, transaction))
        /\ ("merchant_contains" \in DOMAIN conditions
                => ~FailsMerchant(conditions, transaction))
        /\ ("amount_equals" \in DOMAIN conditions => ~FailsEquals(conditions, transaction))
        /\ ("amount_greater_than" \in DOMAIN conditions
                => ~FailsGreater(conditions, transaction))
        /\ ("amount_less_than" \in DOMAIN conditions => ~FailsLess(conditions, transaction))

\* the value of `matched` after the five checks of one rule against one transaction
RuleMatches(rule, transaction) ==
    LET conditions == rule.conditions
        m0 == TRUE
        m1 == IF "description_contains" \in DOMAIN conditions
                 /\ FailsDescription(conditions, transaction) THEN FALSE ELSE m0
        m2 == IF "merchant_contains" \in DOMAIN conditions
                 /\ FailsMerchant(conditions, transaction) THEN FALSE ELSE m1
        m3 == IF "amount_equals" \in DOMAIN conditions
                 /\ FailsEquals(conditions, transaction) THEN FALSE ELSE m2
        m4 == IF "amount_greater_than" \in DOMAIN conditions
                 /\ FailsGreater(conditions, transaction) THEN FALSE ELSE m3
        m5 == IF "amount_less_than" \in DOMAIN conditions
                 /\ FailsLess(conditions, transaction) THEN FALSE ELSE m4
    IN  m5

\* a slip in the inner loop: the `break` is missing and the last matching rule wins
RECURSIVE ScanRules_nobreak(_, _, _)
ScanRules_nobreak(rules, transaction, j) ==
    IF j > Len(rules) THEN 0
    ELSE LET later == ScanRules_nobreak(rules, transaction, j + 1)
         IN  IF later # 0 THEN later
             ELSE IF RuleMatches(rules[j], transaction) THEN j ELSE 0

\* a slip in the loop: the first rule is applied when no rule matched
ScanRules_default(rules, transaction, j) ==
    IF \E k \in j..Len(rules) : RuleMatches(rules[k], transaction)
    THEN CHOOSE k \in j..Len(rules) :
            /\ RuleMatches(rules[k], transaction)
            /\ \A l \in j..(k - 1) : ~RuleMatches(rules[l], transaction)
    ELSE IF j <= Len(rules) THEN j ELSE 0

\* `for rule in rules: ... if matched: ... break`, from rule j on: the index of the
\* rule whose body runs, 0 when the loop ends without a match
RECURSIVE ScanRules(_, _, _)
ScanRules(rules, transaction, j) ==
    IF j > Len(rules) THEN 0
    ELSE IF RuleMatches(rules[j], transaction) THEN j
    ELSE ScanRules(rules, transaction, j + 1)

\* the results dict as created before the loop
NewResults(dry_run) ==
    [processed |-> 0, matched |-> 0, updated |-> 0, rules_applied |-> <<>>,
     dry_run |-> dry_run]

\* the rule_result dict as created when a rule matched
NewRuleResult(rule, transaction) ==
    [rule_name |-> rule.name,
     transaction_id |-> Get(transaction, "id", None),
     transaction_description |-> Get(transaction, "description", NoneStr),
     actions_taken |-> <<>>]

\* the entries appended to actions_taken
SetCategory(c) == [text |-> "Set category to ", category_id |-> c]
SetTags(t) == [text |-> "Set tags to ", tag_ids |-> t]
WouldSetCategory(c) == [text |-> "Would set category to ", category_id |-> c]
WouldSetTags(t) == [text |-> "Would set tags to ", tag_ids |-> t]

\* the dry-run branch: what would be done, recorded and nothing issued
DryRunActions(actions) ==
    (IF "category_id" \in DOMAIN actions
     THEN <<WouldSetCategory(actions.category_id)>> ELSE <<>>)
    \o (IF "tag_ids" \in DOMAIN actions
        THEN <<WouldSetTags(actions.tag_ids)>> ELSE <<>>)

\* a slip: the transaction is not counted
CountProcessed_dropped(results) == results

\* a slip: matched is incremented a second time where the record is appended
CountMatched_twice(results) == [results EXCEPT !.matched = @ + 2]

\* results["processed"] += 1, results["matched"] += 1, results["updated"] += 1
CountProcessed(results) == [results EXCEPT !.processed = @ + 1]
CountMatched(results) == [results EXCEPT !.matched = @ + 1]
CountUpdated(results) == [results EXCEPT !.updated = @ + 1]

\* results["rules_applied"].append(rule_result)
AppendResult(results, rule_result) ==
    [results EXCEPT !.rules_applied = Append(@, rule_result)]

\* The batch loop from the top of iteration idx up to the next await or the end
\* of the loop.  The result says where the coroutine stands: "done" (the loop is
\* over), or suspended in `await mm_client.update_transaction(...)` or in
\* `await mm_client.set_transaction_tags(...)` for transaction idx.
RECURSIVE RunLoop(_, _, _, _, _)
RunLoop(rules, dry_run, transactions, idx, results) ==
    IF idx > Len(transactions)
    THEN [at |-> "done", idx |-> idx, results |-> results]
    ELSE
      LET transaction == transactions[idx]
          counted == CountProcessed(results)
          j == ScanRules(rules, transaction, 1)
      IN  IF j = 0
          THEN RunLoop(rules, dry_run, transactions, idx + 1, counted)
          ELSE
            LET rule == rules[j]
                actions == rule.actions
                hit == CountMatched(counted)
                rule_result == NewRuleResult(rule, transaction)
            IN  IF ~dry_run
                THEN
                  IF "category_id" \in DOMAIN actions
                  THEN [at |-> "update_transaction", idx |-> idx, results |-> hit,
                        actions |-> actions,
                        rule_result |-> [rule_result EXCEPT !.actions_taken =
                                            Append(@, SetCategory(actions.category_id))]]
                  ELSE IF "tag_ids" \in DOMAIN actions
                  THEN [at |-> "set_transaction_tags", idx |-> idx, results |-> hit,
                        actions |-> actions, rule_result |-> rule_result]
                  ELSE RunLoop(rules, dry_run, transactions, idx + 1,
                               AppendResult(hit, rule_result))
                ELSE RunLoop(rules, dry_run, transactions, idx + 1,
                             AppendResult(hit, [rule_result EXCEPT !.actions_taken =
                                                   DryRunActions(actions)]))

\* the coroutine resumes after update_transaction returned
AfterUpdate(rules, dry_run, transactions, fr) ==
    LET updated == CountUpdated(fr.results)
    IN  IF "tag_ids" \in DOMAIN fr.actions
        THEN [fr EXCEPT !.at = "set_transaction_tags", !.results = updated]
        ELSE RunLoop(rules, dry_run, transactions, fr.idx + 1,
                     AppendResult(updated, fr.rule_result))

\* a slip: a tag change is counted as an update too
AfterTags_counted(rules, dry_run, transactions, fr) ==
    RunLoop(rules, dry_run, transactions, fr.idx + 1,
            AppendResult(CountUpdated(fr.results),
                         [fr.rule_result EXCEPT !.actions_taken =
                             Append(@, SetTags(fr.actions.tag_ids))]))

\* the coroutine resumes after set_transaction_tags returned
AfterTags(rules, dry_run, transactions, fr) ==
    RunLoop(rules, dry_run, transactions, fr.idx + 1,
            AppendResult(fr.results,
                         [fr.rule_result EXCEPT !.actions_taken =
                             Append(@, SetTags(fr.actions.tag_ids))]))

-----------------------------------------------------------------------------
(* Inputs of the model *)

\* transactions the upstream may return
T1 == [id |-> "t1", amount |-> 150000, description |-> <<"C", "o", "x">>,
       merchant |-> [name |-> <<"X">>]]
T2 == [id |-> "t2", amount |-> 50005, description |-> <<"o">>, merchant |-> Null]
T3 == [id |-> "t3", merchant |-> [name |-> <<"c", "o">>]]
T4 == [id |-> "t4", amount |-> 1010, description |-> <<"x">>]
TxnPool == {T1, T2, T3, T4}

\* rules a caller may send (schema-valid: name, conditions and actions present)
RBig == [name |-> "big", conditions |-> [amount_greater_than |-> 100000],
         actions |-> [category_id |-> "c1"]]
RHasX == [name |-> "hasx", conditions |-> [description_contains |-> <<"X">>],
          actions |-> [tag_ids |-> <<"g1">>]]
RAll == [name |-> "all", conditions |-> <<>>,
         actions |-> [category_id |-> "c2", tag_ids |-> <<"g2">>]]
RCo == [name |-> "co",
        conditions |-> [merchant_contains |-> <<"C">>, amount_less_than |-> 100000],
        actions |-> <<>>]
RFifty == [name |-> "fifty",
           conditions |-> [amount_equals |-> 50000, description_contains |-> <<"O">>],
           actions |-> [tag_ids |-> <<"g1", "g2">>, category_id |-> "c3"]]
RulePool == {RBig, RHasX, RAll, RCo, RFifty}

\* sequences over S of length at most n
SeqsUpTo(S, n) == UNION {[1..k -> S] : k \in 0..n}

\* the transactions the batches are drawn from (T4 is for the single-rule runs)
BatchPool == {T1, T2, T3}

RuleLists == SeqsUpTo(RulePool, MaxRules)
Batches == SeqsUpTo(BatchPool, MaxTxns)

\* schema-valid argument mappings of apply_transaction_rules
ApplyArguments ==
    {[rules |-> r] : r \in RuleLists}
    \cup {[rules |-> r, dry_run |-> TRUE] : r \in RuleLists}
    \cup {[rules |-> <<RAll>>, dry_run |-> FALSE, start_date |-> GoodDate,
           end_date |-> GoodDate],
          [rules |-> <<RAll>>, start_date |-> BadDate]}

\* the few apply_transaction_rules requests and batches of the whole-program
\* specification (the rule engine's own specification draws from ApplyArguments
\* and Batches)
FewApplyArguments ==
    {[rules |-> <<>>], [rules |-> <<RBig, RAll>>], [rules |-> <<RHasX>>, dry_run |-> TRUE],
     [rules |-> <<RAll>>, dry_run |-> FALSE, start_date |-> GoodDate, end_date |-> GoodDate],
     [rules |-> <<RAll>>, start_date |-> BadDate]}
FewBatches == {<<>>, <<T1, T3>>}

\* schema-valid argument mappings of the tools: the required keys with one value
\* each, the optional date keys absent, well-formed or malformed; for get_accounts
\* also the detail_level the test scripts send (the declared schema has no such
\* property and call_tool does not look at it)
ArgumentsOf(name) ==
    CASE name = "apply_transaction_rules" -> FewApplyArguments
      [] name \in {"get_transactions", "get_budgets", "get_cashflow"} ->
            {<<>>, [start_date |-> GoodDate], [start_date |-> GoodDate, end_date |-> BadDate]}
      [] name = "create_transaction" ->
            {[amount |-> 1000, description |-> <<"x">>, account_id |-> "a1", date |-> d] :
                d \in {GoodDate, BadDate}}
      [] name = "update_transaction" ->
            {[transaction_id |-> "t1"], [transaction_id |-> "t1", date |-> GoodDate],
             [transaction_id |-> "t1", category_id |-> "c1", date |-> BadDate]}
      [] name = "set_budget_amount" ->
            {[category_id |-> "c1", amount |-> 1000],
             [category_id |-> "c1", amount |-> 1000, start_date |-> BadDate]}
      [] name \in {"delete_transaction_category"} -> {[category_id |-> "c1"]}
      [] name \in {"delete_transaction", "get_transaction_details"} ->
            {[transaction_id |-> "t1"]}
      [] name \in {"create_transaction_category", "create_transaction_tag"} ->
            {[name |-> "n"]}
      [] name = "create_manual_account" -> {[name |-> "n", type |-> "cash", balance |-> 0]}
      [] name \in {"update_account", "delete_account"} -> {[account_id |-> "a1"]}
      [] name = "set_transaction_tags" ->
            {[transaction_id |-> "t1", tag_ids |-> <<"g1">>]}
      [] name = "get_accounts" ->
            {<<>>} \cup {[detail_level |-> level] : level \in {"basic", "balance", "full"}}
      [] OTHER -> {<<>>}

\* names a caller may ask for: the catalog and two names outside it
ToolNames == StaticTools \cup {"get_cache_metrics", "no_such_tool"}

\* what an exception raised by an upstream call says
NoBudgetsMessage == "Something went wrong while processing: None"
TimeoutMessage == "Request timed out"
\* a longer message that has NoBudgetsMessage inside
WrappedNoBudgetsMessage == "HTTP 400: Something went wrong while processing: None"
\* the messages the model lets an upstream call raise with: only the get_budgets
\* branch reads the message
ExceptionMessages(op) ==
    IF op = "get_budgets"
    THEN {NoBudgetsMessage, WrappedNoBudgetsMessage, TimeoutMessage}
    ELSE {TimeoutMessage}

\* `"Something went wrong while processing: None" in str(e)`, on the messages above
MentionsNoBudgets(message) == message \in {NoBudgetsMessage, WrappedNoBudgetsMessage}

\* what a successful upstream call returns (other than the transaction batch)
UpstreamResult(op) ==
    Dict([source |-> Str(op), as_of |-> Date(2024, 1, 15)])

-----------------------------------------------------------------------------
(* The session manager: initialize_client and main *)

\* a client call as logged: the method, what it was called with, how it ended
Call(op, args, status) == [op |-> op, args |-> args, status |-> status]

NoRequest == [name |-> None]
NoFrame == [at |-> None]
NoResponse == [kind |-> None]
NoPair == [on |-> FALSE]
NoMonitor == [on |-> FALSE]
NoConversion == [on |-> FALSE]
NoSummary == [reported |-> FALSE]

\* os.getenv() of an unset variable is None; `not value` is true of None and of ""
Falsy(value) == value \in {None, ""}
EnvValues == {None, "", "set"}

\* the client object holds an authenticated session the upstream accepts
Authenticated(client) == client \in {"loaded_valid", "logged_in"}

\* mm_client.load_session(file) raises on a file it cannot read back
LoadRaises(file) == file = "corrupt"

\* the client object after load_session read the file
Loaded(file) == IF file = "valid" THEN "loaded_valid" ELSE "loaded_expired"

\* the log entry of `await mm_client.login(...)`, with or without mfa_secret_key
LoginCall(mfa_secret) ==
    Call("login", IF Falsy(mfa_secret) THEN [password |-> TRUE]
                  ELSE [password |-> TRUE, mfa_secret_key |-> mfa_secret], "pending")

\* the log with its last (pending) call completed
Complete(log, status) == [log EXCEPT ![Len(log)].status = status]

\* the log with its last (pending) call raising an exception that says `message`
CompleteRaised(log, message) ==
    [log EXCEPT ![Len(log)] = [error |-> message] @@ [@ EXCEPT !.status = "raised"]]

\* the log with its last (pending) call returning `result`
CompleteWith(log, result) ==
    [log EXCEPT ![Len(log)] = [result |-> result] @@ [@ EXCEPT !.status = "returned"]]

\* a slip: main() swallows the exception of initialize_client and serves anyway
MainAfter_serves(pc, new_init_pc) ==
    IF pc # "init" THEN pc
    ELSE IF new_init_pc \in {"returned", "raised"} THEN "serving"
    ELSE "init"

\* where main() stands once initialize_client has ended in init_pc
MainAfter(pc, new_init_pc) ==
    IF pc # "init" THEN pc
    ELSE IF new_init_pc = "returned" THEN "serving"
    ELSE IF new_init_pc = "raised" THEN "exited"
    ELSE "init"

\* a slip: the session file is tried whatever MONARCH_FORCE_LOGIN says
ReuseSession_always(file, force_login) == file # "absent"

\* `session_file.exists() and not os.getenv("MONARCH_FORCE_LOGIN")`
ReuseSession(file, force_login) == file # "absent" /\ Falsy(force_login)

\* initialize_client from its entry to its first await, its return or its raise;
\* pc is where main() stands while it awaits the call ("start": main() does not run)
InitializeClientFrom(pc) ==
    LET email == env.MONARCH_EMAIL
        password == env.MONARCH_PASSWORD
        mfa_secret == env.MONARCH_MFA_SECRET
    IN
    /\ init_pc \in {"idle", "returned", "raised"}
    /\ tool_pc # "await"
    /\ IF Falsy(email) \/ Falsy(password)
       THEN /\ init_pc' = "raised"
            /\ init_calls' = <<>>
            /\ UNCHANGED mm_client
       ELSE IF ReuseSession(session_file, env.MONARCH_FORCE_LOGIN)
       THEN IF LoadRaises(session_file)
            THEN /\ mm_client' = "new"
                 /\ init_calls' = <<Call("load_session", <<>>, "raised"),
                                    LoginCall(mfa_secret)>>
                 /\ init_pc' = "login"
            ELSE /\ mm_client' = Loaded(session_file)
                 /\ init_calls' = <<Call("load_session", <<>>, "returned"),
                                    Call("get_accounts", <<>>, "pending")>>
                 /\ init_pc' = "probe"
       ELSE /\ mm_client' = "new"
            /\ init_calls' = <<LoginCall(mfa_secret)>>
            /\ init_pc' = "login"
    /\ main_pc' = MainAfter(pc, init_pc')
    /\ tool_pc' = "idle"
    /\ request' = NoRequest
    /\ calls' = <<>>
    /\ response' = NoResponse
    /\ UNCHANGED <<converted, variant, env, session_file, frame, pair>>

\* main() starts and awaits initialize_client()
Main ==
    /\ main_pc = "start"
    /\ init_pc = "idle"
    /\ tool_pc = "idle"
    /\ InitializeClientFrom("init")
    /\ UNCHANGED monitor

\* a script that imported the module calls initialize_client(); the monitor does
\* so only while mm_client is None
InitializeClient ==
    /\ main_pc = "start"
    /\ mm_client = None
    /\ InitializeClientFrom("start")
    /\ UNCHANGED monitor

\* the validation probe `await mm_client.get_accounts()` returns
ProbeReturns ==
    /\ init_pc = "probe"
    /\ Authenticated(mm_client)
    /\ init_calls' = Complete(init_calls, "returned")
    /\ init_pc' = "returned"
    /\ main_pc' = MainAfter(main_pc, "returned")
    /\ UNCHANGED <<variant, env, mm_client, session_file, tool_pc, request, frame, calls,
                   response, pair, monitor, converted>>

\* a slip: no try/except around the probe, its exception ends initialize_client
ProbeRaises_giveup ==
    /\ init_pc = "probe"
    /\ init_calls' = Complete(init_calls, "raised")
    /\ init_pc' = "raised"
    /\ main_pc' = MainAfter(main_pc, "raised")
    /\ UNCHANGED <<variant, env, mm_client, session_file, tool_pc, request, frame, calls,
                   response, pair, monitor, converted>>

\* the validation probe raises: `except Exception` swallows it and the login starts
ProbeRaises ==
    /\ init_pc = "probe"
    /\ init_calls' = Append(Complete(init_calls, "raised"),
                            LoginCall(env.MONARCH_MFA_SECRET))
    /\ init_pc' = "login"
    /\ UNCHANGED <<variant, env, main_pc, mm_client, session_file, tool_pc, request, frame,
                   calls, response, pair, monitor, converted>>

\* a slip: initialize_client returns after the login without saving the session
LoginReturns_nosave ==
    /\ init_pc = "login"
    /\ mm_client' = "logged_in"
    /\ init_calls' = Complete(init_calls, "returned")
    /\ init_pc' = "returned"
    /\ main_pc' = MainAfter(main_pc, "returned")
    /\ UNCHANGED <<variant, env, session_file, tool_pc, request, frame, calls, response,
                   pair, monitor, converted>>

\* `await mm_client.login(...)` returns; save_session writes the file or raises
LoginReturns ==
    /\ init_pc = "login"
    /\ mm_client' = "logged_in"
    /\ \E saved \in BOOLEAN :
          IF saved
          THEN /\ session_file' = "valid"
               /\ init_calls' = Append(Complete(init_calls, "returned"),
                                       Call("save_session", <<>>, "returned"))
               /\ init_pc' = "returned"
          ELSE /\ session_file' = session_file
               /\ init_calls' = Append(Complete(init_calls, "returned"),
                                       Call("save_session", <<>>, "raised"))
               /\ init_pc' = "raised"
    /\ main_pc' = MainAfter(main_pc, init_pc')
    /\ UNCHANGED <<variant, env, tool_pc, request, frame, calls, response, pair, monitor,
                   converted>>

\* `await mm_client.login(...)` raises: initialize_client raises
LoginRaises ==
    /\ init_pc = "login"
    /\ init_calls' = Complete(init_calls, "raised")
    /\ init_pc' = "raised"
    /\ main_pc' = MainAfter(main_pc, "raised")
    /\ UNCHANGED <<variant, env, mm_client, session_file, tool_pc, request, frame, calls,
                   response, pair, monitor, converted>>

-----------------------------------------------------------------------------
(* The dispatcher: call_tool *)

\* TextContent(type="text", text=...): an f-string is the sequence of its pieces,
\* json.dumps(value) carries the value it serialised
NotInitializedText == [parts |-> <<"Error: MonarchMoney client not initialized">>]

\* a slip: the message leaves the requested name out
UnknownToolText_anonymous(name) == [parts |-> <<"Error: Unknown tool">>]

UnknownToolText(name) == [parts |-> <<"Error: Unknown tool '", name, "'">>]
ErrorExecutingText(name, message) ==
    [parts |-> <<"Error executing ", name, ": ", message>>]
JsonText(value) == [parts |-> <<>>, json |-> value]

\* call_tool returned the list [content] / call_tool raised
Returned(content) == [kind |-> "returned", content |-> <<content>>]
Raised(message) == [kind |-> "raised", message |-> message]

\* a slip in the handler: `except ValueError` lets every other exception escape
Except_narrow(name, e) ==
    IF e.type = "ValueError"
    THEN Returned(ErrorExecutingText(name, e.message))
    ELSE Raised(e.message)

\* `except Exception as e: return [TextContent(... f"Error executing {name}: {str(e)}")]`
Except(name, e) == Returned(ErrorExecutingText(name, e.message))

\* the exception datetime.strptime raises
StrptimeError == [type |-> "ValueError", message |-> "time data does not match format"]
\* an exception raised by an upstream call
UpstreamError(message) == [type |-> "Exception", message |-> message]

\* the text a branch returns for the result of its upstream call: server_static
\* converts dates and then serialises, server serialises with default=str
Serialize(v, result) ==
    IF v = "server_static"
    THEN JsonText(convert_dates_to_strings(result))
    ELSE JsonText(DumpsDefaultStr(result))

\* the keyword arguments of the get_transactions call of apply_transaction_rules
FetchArguments(arguments) ==
    [k \in {"limit"} \cup (DOMAIN arguments \cap {"start_date", "end_date"}) |->
        IF k = "limit" THEN "1000" ELSE arguments[k]]

\* the branches that call their client method without arguments
NoArgumentTools ==
    {"get_accounts", "get_transaction_categories", "refresh_accounts",
     "get_transaction_category_groups", "get_recurring_transactions", "get_institutions",
     "get_subscription_details", "get_merchants", "get_transaction_tags"}

\* what the first upstream call of a branch is made from
CallArguments(name, arguments) ==
    IF name = "apply_transaction_rules" THEN FetchArguments(arguments)
    ELSE IF name \in NoArgumentTools THEN <<>>
    ELSE arguments

\* the mutation call the suspended batch loop awaits
MutationCall(st, transaction) ==
    IF st.at = "update_transaction"
    THEN Call("update_transaction",
              [transaction_id |-> transaction.id, category_id |-> st.actions.category_id],
              "pending")
    ELSE Call("set_transaction_tags",
              [transaction_id |-> transaction.id, tag_ids |-> st.actions.tag_ids],
              "pending")

\* what an observer of the two runs notes when call_tool ends with `outcome`: the
\* counts of a returned apply_transaction_rules summary, under the run's dry_run flag
Observe(outcome) ==
    IF pair.on /\ outcome.kind = "returned" /\ "json" \in DOMAIN outcome.content[1]
    THEN [pair EXCEPT ![IF outcome.content[1].json.dry_run THEN "dry" ELSE "real"] =
             [reported |-> TRUE,
              processed |-> outcome.content[1].json.processed,
              matched |-> outcome.content[1].json.matched]]
    ELSE pair

\* call_tool ends: it returns or raises `outcome`
Finish(outcome, log) ==
    /\ tool_pc' = "returned"
    /\ response' = outcome
    /\ frame' = NoFrame
    /\ calls' = log
    /\ pair' = Observe(outcome)

\* a slip: the category update and the tag update of a transaction are started
\* together (as with asyncio.gather) instead of one after the other
Proceed_gather(st, transactions, log) ==
    IF st.at = "done"
    THEN Finish(Returned(JsonText(st.results)), log)
    ELSE /\ tool_pc' = "await"
         /\ frame' = [transactions |-> transactions] @@ st
         /\ calls' = IF st.at = "update_transaction" /\ "tag_ids" \in DOMAIN st.actions
                     THEN log \o <<MutationCall(st, transactions[st.idx]),
                                   MutationCall([st EXCEPT !.at = "set_transaction_tags"],
                                                transactions[st.idx])>>
                     ELSE Append(log, MutationCall(st, transactions[st.idx]))
         /\ UNCHANGED <<response, pair>>

\* the batch loop stands at st: the summary is returned, or the next mutation is awaited
Proceed(st, transactions, log) ==
    IF st.at = "done"
    THEN Finish(Returned(JsonText(st.results)), log)
    ELSE /\ tool_pc' = "await"
         /\ frame' = [transactions |-> transactions] @@ st
         /\ calls' = Append(log, MutationCall(st, transactions[st.idx]))
         /\ UNCHANGED <<response, pair>>

\* a slip: the flag is read under another key and is never found
DryRun_ignored(arguments) == Get(arguments, "dryRun", FALSE)

\* arguments.get("dry_run", False)
DryRun(arguments) == Get(arguments, "dry_run", FALSE)

\* call_tool(name, arguments) from its entry to its first await or its return
\* a slip in the guard: the handle is taken as set whatever it holds
ClientMissing_never(client) == FALSE

\* `if not mm_client`
ClientMissing(client) == client = None

CallToolWith(name, arguments) ==
    /\ main_pc \in {"start", "serving"}
    /\ init_pc \in {"idle", "returned", "raised"}
    /\ tool_pc \in {"idle", "returned"}
    /\ request' = [name |-> name, arguments |-> arguments]
    /\ IF ClientMissing(mm_client)
       THEN Finish(Returned(NotInitializedText), <<>>)
       ELSE IF name \notin Catalog(variant)
       THEN Finish(Returned(UnknownToolText(name)), <<>>)
       ELSE IF ArgumentsRaise(name, arguments)
       THEN Finish(Except(name, StrptimeError), <<>>)
       ELSE /\ tool_pc' = "await"
            /\ frame' = [at |-> IF name = "apply_transaction_rules"
                                THEN "get_transactions" ELSE "call"]
            /\ calls' = <<Call(UpstreamOp(name), CallArguments(name, arguments),
                               "pending")>>
            /\ response' = NoResponse
            /\ UNCHANGED pair
    /\ UNCHANGED <<variant, env, main_pc, mm_client, session_file, init_pc, init_calls,
                   monitor, converted>>

CallTool ==
    \E name \in ToolNames : \E arguments \in ArgumentsOf(name) :
        CallToolWith(name, arguments)

\* the upstream call of an ordinary branch returns: its result is serialised
UpstreamReturns ==
    /\ tool_pc = "await"
    /\ frame.at = "call"
    /\ Authenticated(mm_client)
    /\ Finish(Returned(Serialize(variant, UpstreamResult(UpstreamOp(request.name)))),
              Complete(calls, "returned"))
    /\ UNCHANGED <<variant, env, main_pc, mm_client, session_file, init_pc, init_calls,
                   request, monitor, converted>>

\* get_transactions of apply_transaction_rules returns a batch: the loop starts
TransactionsReturnWith(transactions) ==
    /\ tool_pc = "await"
    /\ frame.at = "get_transactions"
    /\ Authenticated(mm_client)
    /\ Proceed(RunLoop(request.arguments.rules, DryRun(request.arguments),
                       transactions, 1, NewResults(DryRun(request.arguments))),
               transactions, CompleteWith(calls, transactions))
    /\ UNCHANGED <<variant, env, main_pc, mm_client, session_file, init_pc, init_calls,
                   request, monitor, converted>>

TransactionsReturn == \E transactions \in FewBatches : TransactionsReturnWith(transactions)

\* update_transaction of the batch loop returns
UpdateReturns ==
    /\ tool_pc = "await"
    /\ frame.at = "update_transaction"
    /\ Authenticated(mm_client)
    /\ Proceed(AfterUpdate(request.arguments.rules, DryRun(request.arguments),
                           frame.transactions, frame),
               frame.transactions, Complete(calls, "returned"))
    /\ UNCHANGED <<variant, env, main_pc, mm_client, session_file, init_pc, init_calls,
                   request, monitor, converted>>

\* set_transaction_tags of the batch loop returns
TagsReturn ==
    /\ tool_pc = "await"
    /\ frame.at = "set_transaction_tags"
    /\ Authenticated(mm_client)
    /\ Proceed(AfterTags(request.arguments.rules, DryRun(request.arguments),
                         frame.transactions, frame),
               frame.transactions, Complete(calls, "returned"))
    /\ UNCHANGED <<variant, env, main_pc, mm_client, session_file, init_pc, init_calls,
                   request, monitor, converted>>

\* the get_budgets branch of server_static answers this exception itself
\* a slip in the test of the message: equality instead of `in`
NoBudgetsHandled_exact(v, name, message) ==
    v = "server_static" /\ name = "get_budgets" /\ message = NoBudgetsMessage

NoBudgetsHandled(v, name, message) ==
    v = "server_static" /\ name = "get_budgets" /\ MentionsNoBudgets(message)

NoBudgetsText ==
    JsonText([budgets |-> <<>>,
              message |-> "No budgets configured in your Monarch Money account"])

\* a slip in the batch loop: a try/except around the mutation calls that skips
\* the transaction and goes on with the next one
UpstreamRaises_swallow ==
    /\ tool_pc = "await"
    /\ \E message \in ExceptionMessages(calls[Len(calls)].op) :
          IF frame.at \in {"update_transaction", "set_transaction_tags"}
          THEN Proceed(RunLoop(request.arguments.rules, DryRun(request.arguments),
                               frame.transactions, frame.idx + 1, frame.results),
                       frame.transactions, CompleteRaised(calls, message))
          ELSE Finish(IF NoBudgetsHandled(variant, request.name, message)
                      THEN Returned(NoBudgetsText)
                      ELSE Except(request.name, UpstreamError(message)),
                      CompleteRaised(calls, message))
    /\ UNCHANGED <<variant, env, main_pc, mm_client, session_file, init_pc, init_calls,
                   request, monitor, converted>>

\* the awaited upstream call raises: the exception reaches a handler of call_tool
\* (the batch loop has none of its own)
UpstreamRaises ==
    /\ tool_pc = "await"
    /\ \E message \in ExceptionMessages(calls[Len(calls)].op) :
          Finish(IF NoBudgetsHandled(variant, request.name, message)
                 THEN Returned(NoBudgetsText)
                 ELSE Except(request.name, UpstreamError(message)),
                 CompleteRaised(calls, message))
    /\ UNCHANGED <<variant, env, main_pc, mm_client, session_file, init_pc, init_calls,
                   request, monitor, converted>>

-----------------------------------------------------------------------------
(* The program *)

Init ==
    /\ variant \in {"server", "server_static"}
    /\ env \in [MONARCH_EMAIL : EnvValues, MONARCH_PASSWORD : EnvValues,
                MONARCH_MFA_SECRET : {None, "set"}, MONARCH_FORCE_LOGIN : EnvValues]
    /\ main_pc = "start"
    /\ mm_client = None
    /\ session_file \in {"absent", "valid", "expired", "corrupt"}
    /\ init_pc = "idle"
    /\ init_calls = <<>>
    /\ tool_pc = "idle"
    /\ request = NoRequest
    /\ frame = NoFrame
    /\ calls = <<>>
    /\ response = NoResponse
    /\ pair = NoPair
    /\ monitor = NoMonitor
    /\ converted = NoConversion

Next ==
    \/ Main
    \/ InitializeClient
    \/ ProbeReturns
    \/ ProbeRaises
    \/ LoginReturns
    \/ LoginRaises
    \/ CallTool
    \/ UpstreamReturns
    \/ TransactionsReturn
    \/ UpdateReturns
    \/ TagsReturn
    \/ UpstreamRaises

Spec == Init /\ [][Next]_vars

-----------------------------------------------------------------------------
(* The rule engine on its own: a serving server_static whose callers only ask  *)
(* for apply_transaction_rules, with every rules list and batch of the bounds  *)

\* the state main() reaches after a login that was saved
Ready ==
    /\ variant = "server_static"
    /\ env = [MONARCH_EMAIL |-> "set", MONARCH_PASSWORD |-> "set",
              MONARCH_MFA_SECRET |-> None, MONARCH_FORCE_LOGIN |-> None]
    /\ main_pc = "serving"
    /\ mm_client = "logged_in"
    /\ session_file = "valid"
    /\ init_pc = "returned"
    /\ init_calls = <<Call("login", [password |-> TRUE], "returned"),
                      Call("save_session", <<>>, "returned")>>
    /\ tool_pc = "idle"
    /\ request = NoRequest
    /\ frame = NoFrame
    /\ calls = <<>>
    /\ response = NoResponse

InitRules == Ready /\ pair = NoPair /\ monitor = NoMonitor /\ converted = NoConversion

CallToolApply ==
    \E arguments \in ApplyArguments : CallToolWith("apply_transaction_rules", arguments)

TransactionsReturnAny ==
    \E transactions \in Batches : TransactionsReturnWith(transactions)

NextRules ==
    \/ CallToolApply
    \/ TransactionsReturnAny
    \/ UpdateReturns
    \/ TagsReturn
    \/ UpstreamRaises

SpecRules == InitRules /\ [][NextRules]_vars

-----------------------------------------------------------------------------
(* One rule against one transaction: the matching function on every          *)
(* combination of conditions, through a dry run of a one-rule list            *)

T5 == [id |-> "t5", amount |-> 50010, description |-> <<"O", "x">>, merchant |-> <<>>]
T6 == [id |-> "t6", amount |-> 100000, merchant |-> [name |-> <<"o", "C">>]]
ManyTxns == TxnPool \cup {T5, T6}

\* a condition key absent, or present with one of its values
Optional(key, values) == {<<>>} \cup {key :> value : value \in values}

\* conditions over the five predicate kinds and one key the loop does not know
\* (call_tool does not check its arguments against the declared schema)
ManyConditions ==
    {a @@ b @@ c @@ d @@ e @@ f :
        a \in Optional("description_contains", {<<"X">>, <<"c", "O">>}),
        b \in Optional("merchant_contains", {<<"C">>}),
        c \in Optional("amount_equals", {50000, 1000}),
        d \in Optional("amount_greater_than", {100000, 1000}),
        e \in Optional("amount_less_than", {100000, 1000}),
        f \in Optional("category_is", {<<"c">>})}

ManyRules ==
    {[name |-> "r", conditions |-> conditions, actions |-> [category_id |-> "c1"]] :
        conditions \in ManyConditions}

CallToolOneRule ==
    \E rule \in ManyRules :
        CallToolWith("apply_transaction_rules", [rules |-> <<rule>>, dry_run |-> TRUE])

TransactionsReturnOne ==
    \E transaction \in ManyTxns : TransactionsReturnWith(<<transaction>>)

NextMatch ==
    \/ CallToolOneRule
    \/ TransactionsReturnOne
    \/ UpstreamRaises

SpecMatch == InitRules /\ [][NextMatch]_vars

-----------------------------------------------------------------------------
(* A dry run and a real run of the same request on the same batch *)

InitPair ==
    /\ Ready
    /\ monitor = NoMonitor
    /\ converted = NoConversion
    /\ pair \in {[on |-> TRUE, rules |-> rules, transactions |-> transactions,
                  dry |-> NoSummary, real |-> NoSummary] :
                    rules \in RuleLists, transactions \in Batches}

CallToolPair ==
    \E dry_run \in BOOLEAN :
        CallToolWith("apply_transaction_rules", [rules |-> pair.rules, dry_run |-> dry_run])

TransactionsReturnPair == TransactionsReturnWith(pair.transactions)

NextPair ==
    \/ CallToolPair
    \/ TransactionsReturnPair
    \/ UpdateReturns
    \/ TagsReturn
    \/ UpstreamRaises

SpecPair == InitPair /\ [][NextPair]_vars

-----------------------------------------------------------------------------
(* convert_dates_to_strings on its own: the function applied to an object,    *)
(* and applied again to what it returned                                      *)

\* longest list or tuple of an object
MaxItems == 2

Leaves == {Date(2024, 1, 15), DateTime(2024, 1, 15, 9), Str(<<"x">>), Number(7)}
Keys == {"a", "b"}

\* the dicts, lists and tuples whose values are drawn from S
DictsOver(S) == {Dict(f) : f \in UNION {[K -> S] : K \in SUBSET Keys}}
ListsOver(S) == {List(q) : q \in SeqsUpTo(S, MaxItems)}
TuplesOver(S) == {TupleOf(q) : q \in SeqsUpTo(S, MaxItems)}
ContainersOver(S) == DictsOver(S) \cup ListsOver(S) \cup TuplesOver(S)

\* some containers to nest: empty ones, ones with a date, one two levels deep
Inner ==
    {List(<<>>), TupleOf(<<Date(2024, 1, 15), Str(<<"x">>)>>),
     Dict([a |-> DateTime(2024, 1, 15, 9)]),
     List(<<Dict([b |-> TupleOf(<<Date(2024, 1, 15)>>)])>>)}

\* the objects handed to the function: leaves, containers of leaves, containers
\* of containers
Objects == Leaves \cup ContainersOver(Leaves \cup Inner)

InitConvert ==
    /\ Ready
    /\ pair = NoPair
    /\ monitor = NoMonitor
    /\ converted \in {[on |-> TRUE, at |-> "start", obj |-> obj] : obj \in Objects}

\* result = convert_dates_to_strings(obj)
Convert ==
    /\ converted.on
    /\ converted.at = "start"
    /\ converted' = [on |-> TRUE, at |-> "once", obj |-> converted.obj,
                     result |-> convert_dates_to_strings(converted.obj)]
    /\ UNCHANGED <<variant, env, main_pc, mm_client, session_file, init_pc, init_calls,
                   tool_pc, request, frame, calls, response, pair, monitor>>

\* again = convert_dates_to_strings(result)
ConvertAgain ==
    /\ converted.on
    /\ converted.at = "once"
    /\ converted' = [on |-> TRUE, at |-> "twice", obj |-> converted.obj,
                     result |-> converted.result,
                     again |-> convert_dates_to_strings(converted.result)]
    /\ UNCHANGED <<variant, env, main_pc, mm_client, session_file, init_pc, init_calls,
                   tool_pc, request, frame, calls, response, pair, monitor>>

NextConvert ==
    \/ Convert
    \/ ConvertAgain

SpecConvert == InitConvert /\ [][NextConvert]_vars

-----------------------------------------------------------------------------
(* The production monitor (monitor_production_metrics.py): a script that      *)
(* imports the server module, initializes it and polls call_tool for          *)
(* get_cache_metrics. time.time() is a clock in units of twelve hours; hit    *)
(* rates are in percent.                                                      *)

\* `time.time() - 86400`: a day of the clock
Day == 2
\* the clock of the model stops here
MaxClock == 3
\* `prev_hit_rate - 0.1`
Drop == 10

\* the JSON null
NoneValue == [kind |-> "none"]

\* the JSON objects a get_cache_metrics tool answers with: a hit rate and a
\* count of saved calls, each a number or null
MetricsJson ==
    {[cache_hit_rate |-> h, api_calls_saved |-> a] :
        h \in {Number(90), Number(60), Number(40), NoneValue},
        a \in {Number(150), NoneValue}}

\* what call_tool of the imported server answers to get_cache_metrics
ServerAnswer ==
    IF ClientMissing(mm_client) THEN NotInitializedText
    ELSE UnknownToolText("get_cache_metrics")

\* what `await server.call_tool("get_cache_metrics", {})` may hand to the monitor
CacheMetricsAnswers == {ServerAnswer} \cup {JsonText(m) : m \in MetricsJson}

\* collect_metrics once call_tool has answered: json.loads of a text that is not
\* JSON raises and the function returns None, else the sample with its timestamp
collect_metrics(answer, now) ==
    IF "json" \notin DOMAIN answer THEN NoneValue
    ELSE [unix_timestamp |-> now] @@ answer.json

\* `float(raw) if raw is not None else 0.0` of metrics.get("cache_hit_rate", 0)
HitRate(metrics) ==
    IF "cache_hit_rate" \in DOMAIN metrics /\ metrics.cache_hit_rate.kind = "int"
    THEN metrics.cache_hit_rate.n
    ELSE 0

\* analyze_metrics: `calls_saved > 100` raises TypeError on a null count
analyze_metrics(metrics, metrics_history, alert_threshold) ==
    LET hit_rate == HitRate(metrics)
        low == hit_rate < alert_threshold
        dropped ==
            /\ Len(metrics_history) > 0
            /\ hit_rate < HitRate(metrics_history[Len(metrics_history)]) - Drop
    IN  IF "api_calls_saved" \in DOMAIN metrics /\ metrics.api_calls_saved.kind # "int"
        THEN [raised |-> TRUE]
        ELSE [raised |-> FALSE,
              alerts |-> (IF low THEN <<"low_cache_hit_rate">> ELSE <<>>)
                         \o (IF dropped THEN <<"performance_degradation">> ELSE <<>>),
              status |-> IF low THEN "warning" ELSE "healthy"]

\* `[m for m in history if m.get("unix_timestamp", 0) > time.time() - 86400]`
KeepLastDay(history, now) ==
    SelectSeq(history, LAMBDA m : m.unix_timestamp > now - Day)

NoIteration == [done |-> FALSE]

\* ProductionMonitor(interval, alert_threshold), with what an observer notes:
\* whether stop_monitoring was called, whether a collection began after that,
\* and the last iteration (the history before it, the sample, the analysis)
NewMonitor(alert_threshold) ==
    [on |-> TRUE, at |-> "new", running |-> FALSE, alert_threshold |-> alert_threshold,
     metrics_history |-> <<>>, now |-> 0,
     stopped |-> FALSE, began_after_stop |-> FALSE, last |-> NoIteration]

ServerUnchanged ==
    UNCHANGED <<variant, env, main_pc, mm_client, session_file, init_pc, init_calls,
                tool_pc, request, frame, calls, response, pair, converted>>

\* the process of the monitor: the server module just imported
InitMonitor ==
    /\ variant = "server"
    /\ env \in [MONARCH_EMAIL : {None, "set"}, MONARCH_PASSWORD : {"set"},
                MONARCH_MFA_SECRET : {None}, MONARCH_FORCE_LOGIN : {None}]
    /\ main_pc = "start"
    /\ mm_client = None
    /\ session_file \in {"absent", "valid", "expired", "corrupt"}
    /\ init_pc = "idle"
    /\ init_calls = <<>>
    /\ tool_pc = "idle"
    /\ request = NoRequest
    /\ frame = NoFrame
    /\ calls = <<>>
    /\ response = NoResponse
    /\ pair = NoPair
    /\ converted = NoConversion
    /\ monitor \in {NewMonitor(alert_threshold) : alert_threshold \in {30, 50}}

\* monitor_loop from its entry to the await of its first collection
EnterLoop ==
    [monitor EXCEPT !.at = "collect", !.running = TRUE,
                    !.began_after_stop = monitor.stopped]

\* run_monitoring: initialize() calls initialize_client() while mm_client is None
\* and monitor_loop follows; an exception of initialize_client ends run_monitoring
RunMonitoring ==
    /\ monitor.on
    /\ monitor.at = "new"
    /\ IF mm_client = None
       THEN /\ InitializeClientFrom("start")
            /\ monitor' = [monitor EXCEPT !.at = IF init_pc' = "raised" THEN "failed"
                                                 ELSE "initialize"]
       ELSE /\ monitor' = EnterLoop
            /\ ServerUnchanged

\* initialize_client returned to initialize(): monitor_loop starts
MonitorLoop ==
    /\ monitor.on
    /\ monitor.at = "initialize"
    /\ init_pc = "returned"
    /\ monitor' = EnterLoop
    /\ ServerUnchanged

\* initialize_client raised: run_monitoring raises and main() exits
InitializeFails ==
    /\ monitor.on
    /\ monitor.at = "initialize"
    /\ init_pc = "raised"
    /\ monitor' = [monitor EXCEPT !.at = "failed"]
    /\ ServerUnchanged

\* stop_monitoring(), called by another task while run_monitoring is suspended
StopMonitoring ==
    /\ monitor.on
    /\ ~monitor.stopped
    /\ \/ monitor.at \in {"collect", "sleep", "backoff"}
       \/ monitor.at = "initialize" /\ init_pc \in {"probe", "login"}
    /\ monitor' = [monitor EXCEPT !.running = FALSE, !.stopped = TRUE]
    /\ ServerUnchanged

\* call_tool answers: the rest of the iteration up to its sleep; an exception of
\* analyze_metrics goes to `except Exception` and its sleep
CollectReturns ==
    /\ monitor.on
    /\ monitor.at = "collect"
    /\ \E answer \in CacheMetricsAnswers :
          LET metrics == collect_metrics(answer, monitor.now)
              analysis == analyze_metrics(metrics, monitor.metrics_history,
                                          monitor.alert_threshold)
              seen == [done |-> TRUE, now |-> monitor.now, metrics |-> metrics,
                       before |-> monitor.metrics_history]
          IN  IF metrics = NoneValue
              THEN monitor' = [monitor EXCEPT !.at = "sleep", !.last = seen]
              ELSE IF analysis.raised
              THEN monitor' = [monitor EXCEPT !.at = "backoff",
                                              !.last = [analysis |-> analysis] @@ seen]
              ELSE monitor' =
                      [monitor EXCEPT
                          !.at = "sleep",
                          !.metrics_history =
                              KeepLastDay(Append(monitor.metrics_history, metrics),
                                          monitor.now),
                          !.last = [analysis |-> analysis] @@ seen]
    /\ ServerUnchanged

\* asyncio.sleep(interval) returns and `while self.running` is tested: the next
\* collection is awaited, or the loop ends and running is cleared
Wake ==
    /\ monitor.on
    /\ monitor.at \in {"sleep", "backoff"}
    /\ IF monitor.running
       THEN \E step \in 1..Day :
               /\ monitor.now + step <= MaxClock
               /\ monitor' = [monitor EXCEPT
                                 !.at = "collect", !.now = monitor.now + step,
                                 !.began_after_stop = monitor.stopped]
       ELSE monitor' = [monitor EXCEPT !.at = "exited", !.running = FALSE]
    /\ ServerUnchanged

\* KeyboardInterrupt inside the try of an iteration: `break`
Interrupt ==
    /\ monitor.on
    /\ monitor.at \in {"collect", "sleep"}
    /\ monitor' = [monitor EXCEPT !.at = "exited", !.running = FALSE]
    /\ ServerUnchanged

NextMonitor ==
    \/ RunMonitoring
    \/ ProbeReturns
    \/ ProbeRaises
    \/ LoginReturns
    \/ LoginRaises
    \/ MonitorLoop
    \/ InitializeFails
    \/ StopMonitoring
    \/ CollectReturns
    \/ Wake
    \/ Interrupt

SpecMonitor == InitMonitor /\ [][NextMonitor]_vars

-----------------------------------------------------------------------------
(* What the claims speak of *)

Mutations == {"update_transaction", "set_transaction_tags"}

\* the request in progress (or the last one) is an apply_transaction_rules request
IsApply == request.name = "apply_transaction_rules"

\* its get_transactions call has returned a batch
HasBatch == IsApply /\ calls # <<>> /\ "result" \in DOMAIN calls[1]
Batch == calls[1].result
Rules == request.arguments.rules

\* call_tool returned the summary of an apply_transaction_rules request
HasSummary ==
    /\ IsApply
    /\ tool_pc = "returned"
    /\ response.kind = "returned"
    /\ "json" \in DOMAIN response.content[1]
Summary == response.content[1].json

\* the rules of a list that match a transaction, and the earliest of them
Matching(rules, transaction) ==
    {j \in 1..Len(rules) : RuleMatches(rules[j], transaction)}
Earliest(rules, transaction) ==
    CHOOSE j \in Matching(rules, transaction) :
        \A k \in Matching(rules, transaction) : j <= k

\* the positions of a batch whose transaction matches some rule, in batch order
MatchedPositions(rules, batch) ==
    SelectSeq([i \in 1..Len(batch) |-> i],
              LAMBDA i : Matching(rules, batch[i]) # {})

\* the rules_applied list as far as the loop has got
AppliedSoFar ==
    IF tool_pc = "await" /\ "results" \in DOMAIN frame THEN frame.results.rules_applied
    ELSE IF HasSummary THEN Summary.rules_applied
    ELSE <<>>

\* the mutation calls a rule's actions stand for, on one transaction
MutationsOf(actions, id) ==
    (IF "category_id" \in DOMAIN actions
     THEN <<[op |-> "update_transaction",
             args |-> [transaction_id |-> id, category_id |-> actions.category_id]]>>
     ELSE <<>>)
    \o (IF "tag_ids" \in DOMAIN actions
        THEN <<[op |-> "set_transaction_tags",
                args |-> [transaction_id |-> id, tag_ids |-> actions.tag_ids]]>>
        ELSE <<>>)

\* the mutation calls of a whole batch in which nothing fails: those of the
\* earliest matching rule of each matched transaction, in batch order
RECURSIVE MutationsFrom(_, _, _)
MutationsFrom(rules, batch, i) ==
    IF i > Len(batch) THEN <<>>
    ELSE (IF Matching(rules, batch[i]) = {} THEN <<>>
          ELSE MutationsOf(rules[Earliest(rules, batch[i])].actions, batch[i].id))
         \o MutationsFrom(rules, batch, i + 1)

\* the mutation calls issued so far, without their status
IssuedMutations ==
    LET m == SelectSeq(calls, LAMBDA c : c.op \in Mutations)
    IN  [i \in 1..Len(m) |-> [op |-> m[i].op, args |-> m[i].args]]

IsPrefix(p, q) == Len(p) <= Len(q) /\ \A i \in 1..Len(p) : p[i] = q[i]

\* the flag the caller sent (absent: false)
AskedDryRun == "dry_run" \in DOMAIN request.arguments /\ request.arguments.dry_run

-----------------------------------------------------------------------------
(* C1: per transaction the rules are tried in list order and only the first   *)
(* fully-matching rule is applied: every action record names the earliest     *)
(* matching rule of its transaction, a matched transaction gets exactly one    *)
(* record, and the mutation calls issued are those of the earliest rule only.  *)
C1_FirstMatchWins ==
    HasBatch =>
        LET m == MatchedPositions(Rules, Batch)
            applied == AppliedSoFar
        IN  /\ Len(applied) <= Len(m)
            /\ \A i \in 1..Len(applied) :
                  /\ applied[i].rule_name = Rules[Earliest(Rules, Batch[m[i]])].name
                  /\ applied[i].transaction_id = Batch[m[i]].id
            /\ HasSummary => Len(applied) = Len(m)
            /\ IsPrefix(IssuedMutations,
                        IF AskedDryRun THEN <<>> ELSE MutationsFrom(Rules, Batch, 1))

\* a real run returned its summary for a batch holding a transaction that two
\* rules of the list match
C1_Witness ==
    /\ HasSummary
    /\ ~AskedDryRun
    /\ \E i \in 1..Len(Batch) : Cardinality(Matching(Rules, Batch[i])) >= 2
    /\ IssuedMutations # <<>>

(* C3: the summary's processed equals the number of transactions fetched,     *)
(* whatever the rules match, the empty rules list included.                    *)
C3_ProcessedIsBatchSize ==
    HasSummary => Summary.processed = Len(Batch)

\* a summary for a batch of two transactions of which the rules match only one
C3_Witness ==
    /\ HasSummary
    /\ Len(Batch) >= 2
    /\ Summary.processed = Len(Batch)
    /\ Summary.matched = 1

(* C5: a rule with empty conditions matches every transaction: when it comes  *)
(* first, matched equals processed and every transaction gets its record.      *)
C5_EmptyConditionsMatchAll ==
    (HasSummary /\ Rules # <<>> /\ DOMAIN Rules[1].conditions = {}) =>
        /\ Summary.matched = Summary.processed
        /\ Len(Summary.rules_applied) = Len(Batch)
        /\ \A i \in 1..Len(Batch) :
              /\ Summary.rules_applied[i].rule_name = Rules[1].name
              /\ Summary.rules_applied[i].transaction_id = Batch[i].id

\* a summary for a batch of at least two transactions with such a rule first
C5_Witness ==
    /\ HasSummary
    /\ Rules # <<>>
    /\ DOMAIN Rules[1].conditions = {}
    /\ Len(Batch) >= 2
    /\ Summary.matched = Len(Batch)

(* C2: a run with dry_run=true issues no upstream mutation call, and it       *)
(* reports the same processed and matched counts as the run of the same rules  *)
(* on the same batch with dry_run=false.                                       *)
C2_DryRunOnlyReports ==
    /\ (IsApply /\ AskedDryRun) => \A i \in 1..Len(calls) : calls[i].op \notin Mutations
    /\ (pair.on /\ pair.dry.reported /\ pair.real.reported) =>
          /\ pair.dry.processed = pair.real.processed
          /\ pair.dry.matched = pair.real.matched

\* both runs have reported, on a batch in which the real run had rules to apply
C2_Witness ==
    /\ pair.on
    /\ pair.dry.reported
    /\ pair.real.reported
    /\ pair.real.matched >= 1
    /\ pair.real.matched < pair.real.processed
    /\ MutationsFrom(pair.rules, pair.transactions, 1) # <<>>

(* C4: a transaction matches a rule exactly when every predicate present in   *)
(* the rule's conditions holds for it: one failing predicate is enough for no  *)
(* match, and absent predicates do not count.                                  *)
PredicateKinds ==
    {"description_contains", "merchant_contains", "amount_equals", "amount_greater_than",
     "amount_less_than"}
PredicateHolds(key, conditions, transaction) ==
    CASE key = "description_contains" -> ~FailsDescription(conditions, transaction)
      [] key = "merchant_contains" -> ~FailsMerchant(conditions, transaction)
      [] key = "amount_equals" -> ~FailsEquals(conditions, transaction)
      [] key = "amount_greater_than" -> ~FailsGreater(conditions, transaction)
      [] key = "amount_less_than" -> ~FailsLess(conditions, transaction)

C4_MatchIsConjunction ==
    (HasSummary /\ Len(Rules) = 1 /\ Len(Batch) = 1) =>
        /\ Summary.matched \in {0, 1}
        /\ (Summary.matched = 1) <=>
              \A key \in DOMAIN Rules[1].conditions \cap PredicateKinds :
                  PredicateHolds(key, Rules[1].conditions, Batch[1])

\* no match for a rule with three or more predicates of which exactly one fails
C4_Witness ==
    /\ HasSummary
    /\ Len(Rules) = 1
    /\ Len(Batch) = 1
    /\ Summary.matched = 0
    /\ Cardinality(DOMAIN Rules[1].conditions \cap PredicateKinds) >= 3
    /\ Cardinality({key \in DOMAIN Rules[1].conditions \cap PredicateKinds :
                       ~PredicateHolds(key, Rules[1].conditions, Batch[1])}) = 1

(* C9: with dry_run=false, a raising mutation aborts the batch: call_tool     *)
(* ends with the error text, no call is issued after the one that raised, and  *)
(* the mutations made before it stand (the log holds them as returned and      *)
(* nothing but the forward mutations of the rules was ever issued).            *)
C9_FailureAbortsBatch ==
    /\ \A i \in 1..(Len(calls) - 1) : calls[i].status = "returned"
    /\ (calls # <<>> /\ calls[Len(calls)].status = "raised") =>
          /\ tool_pc = "returned"
          /\ response = Returned(ErrorExecutingText(request.name, calls[Len(calls)].error))
    /\ HasBatch => IsPrefix(IssuedMutations, MutationsFrom(Rules, Batch, 1))

\* a mutation raised after an earlier one had been made and before the
\* mutations of a later transaction were issued
C9_Witness ==
    /\ HasBatch
    /\ calls[Len(calls)].status = "raised"
    /\ calls[Len(calls)].op \in Mutations
    /\ Len(IssuedMutations) >= 2
    /\ \E k \in (Len(IssuedMutations) + 1)..Len(MutationsFrom(Rules, Batch, 1)) :
          MutationsFrom(Rules, Batch, 1)[k].args.transaction_id
              # calls[Len(calls)].args.transaction_id

-----------------------------------------------------------------------------
(* Claims about the dispatcher and the session manager, under Spec *)

\* call_tool has ended for the request at hand
Ended == tool_pc = "returned"
\* the one content item of a returned response is built from these pieces
ReturnedParts(parts) ==
    /\ response.kind = "returned"
    /\ Len(response.content) = 1
    /\ response.content[1].parts = parts
\* a returned text that contains the literal `name`
NamesTool(name) ==
    /\ response.kind = "returned"
    /\ \E i \in 1..Len(response.content[1].parts) : response.content[1].parts[i] = name

(* C6 as stated: for a name outside the catalog call_tool returns an error     *)
(* text containing the requested name, in every state of the server, and       *)
(* issues no upstream call.                                                    *)
C6_Original ==
    (Ended /\ request.name \notin Catalog(variant)) =>
        /\ NamesTool(request.name)
        /\ calls = <<>>

(* C6: for a name outside the catalog call_tool returns (never raises) an     *)
(* error text and issues no upstream call, in every state; the text contains   *)
(* the requested name in every state in which mm_client is set, and is the     *)
(* 'client not initialized' text while mm_client is None.                      *)
C6_UnknownToolAnswered ==
    (Ended /\ request.name \notin Catalog(variant)) =>
        /\ calls = <<>>
        /\ IF mm_client = None
           THEN ReturnedParts(NotInitializedText.parts)
           ELSE /\ NamesTool(request.name)
                /\ ReturnedParts(<<"Error: Unknown tool '", request.name, "'">>)

\* a name of the other module's catalog asked of an initialised server
C6_Witness ==
    /\ Ended
    /\ variant = "server"
    /\ request.name = "delete_account"
    /\ mm_client # None
    /\ NamesTool("delete_account")

\* the last upstream call of the request raised
LastRaised == calls # <<>> /\ calls[Len(calls)].status = "raised"
\* the exception messages that contain the phrase of the no-budgets case
SaysNoBudgets(message) ==
    message \in {"Something went wrong while processing: None",
                 "HTTP 400: Something went wrong while processing: None"}

(* C7 as stated: call_tool never raises, and whatever an upstream call raises  *)
(* comes back as the text error response of the handler.                       *)
C7_Original ==
    /\ response.kind # "raised"
    /\ (Ended /\ LastRaised) =>
          ReturnedParts(<<"Error executing ", request.name, ": ",
                          calls[Len(calls)].error>>)

(* C7: call_tool never lets an exception escape; an exception raised by an    *)
(* upstream call comes back as the 'Error executing' text, except that the     *)
(* get_budgets branch of server_static answers the 'no budgets' exception with *)
(* an empty budget list; after it has ended the dispatcher takes the next call.*)
C7_NoExceptionEscapes ==
    /\ response.kind # "raised"
    /\ (Ended /\ LastRaised) =>
          IF /\ variant = "server_static"
             /\ request.name = "get_budgets"
             /\ SaysNoBudgets(calls[Len(calls)].error)
          THEN /\ response.kind = "returned"
               /\ "json" \in DOMAIN response.content[1]
          ELSE ReturnedParts(<<"Error executing ", request.name, ": ",
                               calls[Len(calls)].error>>)
    /\ Ended => ENABLED CallTool

\* a mutation of the batch loop raised and call_tool returned the error text
C7_Witness ==
    /\ Ended
    /\ LastRaised
    /\ calls[Len(calls)].op \in Mutations
    /\ ReturnedParts(<<"Error executing ", "apply_transaction_rules", ": ",
                       "Request timed out">>)

\* the client method a tool name stands for
CorrespondingOp(name) == IF name = "refresh_accounts" THEN "request_accounts_refresh" ELSE name
\* every date string of the arguments has the form YYYY-MM-DD
DatesParse(arguments) ==
    \A k \in DOMAIN arguments \cap {"start_date", "end_date", "date"} :
        arguments[k] = "2024-01-15"
\* the returned text is the serialised result of `op`: dates have become strings
ReturnsResultOf(op) ==
    /\ response.kind = "returned"
    /\ Len(response.content) = 1
    /\ "json" \in DOMAIN response.content[1]
    /\ "kind" \in DOMAIN response.content[1].json
    /\ response.content[1].json.kind = "dict"
    /\ response.content[1].json.items.source = Str(op)
    /\ response.content[1].json.items.as_of = Str(<<2024, "-", 1, "-", 15>>)

(* C8 as stated: a recognised name with schema-valid arguments makes exactly   *)
(* one upstream call, the one of that name, and returns its serialised result. *)
C8_Original ==
    (Ended /\ request.name \in Catalog(variant)) =>
        /\ Len(calls) = 1
        /\ calls[1].op = CorrespondingOp(request.name)
        /\ ReturnsResultOf(calls[1].op)

(* C8: with the client initialised and date strings that parse, a recognised  *)
(* name other than apply_transaction_rules makes exactly one upstream call,    *)
(* the one of that name, and returns its serialised result when the call       *)
(* returns (a text built by the handler when it raises);                       *)
(* apply_transaction_rules makes one get_transactions call and after it only   *)
(* update_transaction / set_transaction_tags calls.                            *)
C8_OneUpstreamCall ==
    (/\ tool_pc \in {"await", "returned"}
     /\ request.name \in Catalog(variant)
     /\ mm_client # None
     /\ DatesParse(request.arguments)) =>
        IF request.name = "apply_transaction_rules"
        THEN /\ calls # <<>>
             /\ calls[1].op = "get_transactions"
             /\ \A i \in 2..Len(calls) : calls[i].op \in Mutations
        ELSE /\ Len(calls) = 1
             /\ calls[1].op = CorrespondingOp(request.name)
             /\ (Ended /\ calls[1].status = "returned") => ReturnsResultOf(calls[1].op)
             /\ (Ended /\ calls[1].status = "raised") =>
                    /\ response.kind = "returned"
                    /\ ~ReturnsResultOf(calls[1].op)

\* the one call of a tool of the larger catalog returned and its result came back
C8_Witness ==
    /\ Ended
    /\ request.name = "get_transaction_details"
    /\ Len(calls) = 1
    /\ calls[1].status = "returned"
    /\ ReturnsResultOf("get_transaction_details")

\* initialize_client has run with both credentials set
HasCredentials == ~Falsy(env.MONARCH_EMAIL) /\ ~Falsy(env.MONARCH_PASSWORD)
\* initialize_client has started and the session file is still as it found it
FoundSession ==
    /\ init_pc \in {"probe", "login", "raised"}
    /\ session_file # "absent"
    /\ Falsy(env.MONARCH_FORCE_LOGIN)
\* the calls initialize_client made so far, by method
InitCallsOf(op) == {i \in 1..Len(init_calls) : init_calls[i].op = op}
\* what follows a session that was found: one probe after a load; nothing after a
\* probe that returned; a login after a load or a probe that raised
ReuseThenFallback ==
    /\ \A i \in InitCallsOf("load_session") :
          /\ i = 1
          /\ init_calls[i].status = "returned" =>
                /\ Len(init_calls) >= 2
                /\ init_calls[2].op = "get_accounts"
    /\ Cardinality(InitCallsOf("get_accounts")) <= 1
    /\ \A i \in InitCallsOf("get_accounts") :
          init_calls[i].status = "returned" =>
              /\ Len(init_calls) = i
              /\ init_pc = "returned"
              /\ InitCallsOf("login") = {}
              /\ InitCallsOf("save_session") = {}
    /\ \A i \in InitCallsOf("load_session") \cup InitCallsOf("get_accounts") :
          init_calls[i].status = "raised" =>
              /\ Len(init_calls) > i
              /\ init_calls[i + 1].op = "login"

(* C10 as stated: whenever a session file exists and reuse is not bypassed,    *)
(* initialize_client loads the file and probes it once, and so on.             *)
C10_Original ==
    /\ FoundSession => (init_calls # <<>> /\ init_calls[1].op = "load_session")
    /\ ReuseThenFallback

(* C10: with both credentials set, when a session file exists and reuse is    *)
(* not bypassed initialize_client loads the file and validates it with exactly *)
(* one get_accounts call; if the probe returns initialization ends with no     *)
(* login and no save_session; if the load or the probe raises a login follows. *)
(* Without credentials it raises before it looks at the file.                  *)
C10_SessionReuse ==
    /\ (FoundSession /\ HasCredentials) =>
          (init_calls # <<>> /\ init_calls[1].op = "load_session")
    /\ (init_pc # "idle" /\ ~HasCredentials) => (init_calls = <<>> /\ init_pc = "raised")
    /\ ReuseThenFallback

\* the session was loaded, the probe returned and initialization ended there
C10_Witness ==
    /\ init_pc = "returned"
    /\ Len(init_calls) = 2
    /\ init_calls[1] = Call("load_session", <<>>, "returned")
    /\ init_calls[2] = Call("get_accounts", <<>>, "returned")
    /\ mm_client = "loaded_valid"

\* the last call initialize_client made
LastInitCall == init_calls[Len(init_calls)]

(* C11: whenever initialize_client returns after a login, save_session was    *)
(* called right after the login returned and before the return, and the file   *)
(* holds the new session; a login that raised is followed by no call at all;   *)
(* a save_session that raised ends initialize_client with that exception.      *)
C11_LoginPersistsSession ==
    /\ (init_pc = "returned" /\ InitCallsOf("login") # {}) =>
          /\ Len(init_calls) >= 2
          /\ LastInitCall = Call("save_session", <<>>, "returned")
          /\ init_calls[Len(init_calls) - 1].op = "login"
          /\ init_calls[Len(init_calls) - 1].status = "returned"
          /\ session_file = "valid"
    /\ \A i \in InitCallsOf("login") :
          init_calls[i].status = "raised" =>
              /\ i = Len(init_calls)
              /\ init_pc = "raised"
    /\ \A i \in InitCallsOf("save_session") :
          /\ i > 1
          /\ init_calls[i - 1].op = "login"
          /\ init_calls[i - 1].status = "returned"
          /\ init_calls[i].status = "raised" =>
                /\ init_pc = "raised"
                /\ main_pc # "serving"

\* initialize_client returned through the login that followed a failed probe of
\* an expired session, the new session saved over the old file
C11_Witness ==
    /\ init_pc = "returned"
    /\ Len(init_calls) = 4
    /\ init_calls[2] = Call("get_accounts", <<>>, "raised")
    /\ init_calls[3].op = "login"
    /\ init_calls[3].status = "returned"
    /\ init_calls[4] = Call("save_session", <<>>, "returned")
    /\ mm_client = "logged_in"

(* C12: with MONARCH_EMAIL or MONARCH_PASSWORD missing or empty, or with a    *)
(* login that raises, initialize_client raises and main() returns without      *)
(* reaching server.run; with a credential missing no session load, no session  *)
(* save and no upstream call is made at all.                                   *)
C12_InitFailureIsFatal ==
    /\ (init_pc # "idle" /\ ~HasCredentials) =>
          /\ init_pc = "raised"
          /\ init_calls = <<>>
          /\ calls = <<>>
          /\ mm_client = None
          /\ main_pc \in {"start", "exited"}
    /\ (init_calls # <<>> /\ LastInitCall.op = "login" /\ LastInitCall.status = "raised") =>
          /\ init_pc = "raised"
          /\ main_pc \in {"start", "exited"}
    /\ main_pc = "serving" => init_pc = "returned"
    /\ main_pc = "init" => init_pc \in {"probe", "login"}
    /\ (init_pc = "raised" /\ main_pc # "start") => main_pc = "exited"

\* main() has returned after a login that raised
C12_Witness ==
    /\ main_pc = "exited"
    /\ HasCredentials
    /\ LastInitCall.op = "login"
    /\ LastInitCall.status = "raised"

\* initialize_client has started and neither the file nor the log was reset since
Started == init_pc # "idle"

(* C13 as stated: whenever MONARCH_FORCE_LOGIN is set, initialize_client makes *)
(* no load_session and no probe, logs in, and saves the new session.           *)
C13_Original ==
    (Started /\ env.MONARCH_FORCE_LOGIN # None) =>
        /\ InitCallsOf("load_session") = {}
        /\ InitCallsOf("get_accounts") = {}
        /\ init_calls # <<>>
        /\ init_calls[1].op = "login"
        /\ init_pc = "returned" => (LastInitCall = Call("save_session", <<>>, "returned")
                                    /\ session_file = "valid")

(* C13: with both credentials set and MONARCH_FORCE_LOGIN set to a non-empty  *)
(* value, initialize_client makes no load_session and no probe even if a       *)
(* session file exists; its first call is the credential login, and when it    *)
(* returns the session file has been overwritten by save_session. An empty     *)
(* MONARCH_FORCE_LOGIN bypasses nothing.                                       *)
C13_ForceLoginBypassesReuse ==
    /\ (Started /\ HasCredentials /\ ~Falsy(env.MONARCH_FORCE_LOGIN)) =>
          /\ InitCallsOf("load_session") = {}
          /\ InitCallsOf("get_accounts") = {}
          /\ init_calls # <<>>
          /\ init_calls[1].op = "login"
          /\ init_pc = "returned" => (LastInitCall = Call("save_session", <<>>, "returned")
                                      /\ session_file = "valid")
    /\ (init_pc \in {"probe", "login"} /\ env.MONARCH_FORCE_LOGIN = ""
        /\ session_file # "absent") => init_calls[1].op = "load_session"

\* initialize_client returned after a forced login: the login is its first call
\* and the session file was written by save_session
C13_Witness ==
    /\ init_pc = "returned"
    /\ env.MONARCH_FORCE_LOGIN = "set"
    /\ Len(init_calls) = 2
    /\ init_calls[1].op = "login"
    /\ init_calls[2] = Call("save_session", <<>>, "returned")
    /\ session_file = "valid"

-----------------------------------------------------------------------------
(* Claims about the counters and the order of the batch loop *)

\* the calls of the request to `op` that have returned
ReturnedCalls(op) ==
    {i \in 1..Len(calls) : calls[i].op = op /\ calls[i].status = "returned"}
\* the counters as far as the loop has got: of the suspended frame, or of the summary
HasCounters == (tool_pc = "await" /\ "results" \in DOMAIN frame) \/ HasSummary
Counters == IF HasSummary THEN Summary ELSE frame.results
\* the positions of the batch whose earliest matching rule sets a category
CategoryPositions(rules, batch) ==
    {i \in 1..Len(batch) :
        /\ Matching(rules, batch[i]) # {}
        /\ "category_id" \in DOMAIN rules[Earliest(rules, batch[i])].actions}

(* C14: updated counts exactly the category updates made: at every point of   *)
(* the loop it is the number of update_transaction calls that returned, in the *)
(* summary of a real run it is the number of transactions whose applied rule   *)
(* has a category_id (tag_ids alone add a set_transaction_tags call and leave  *)
(* updated alone), and in a dry run it is 0.                                   *)
C14_UpdatedCountsCategoryUpdates ==
    /\ HasCounters => Counters.updated = Cardinality(ReturnedCalls("update_transaction"))
    /\ HasSummary =>
          /\ Summary.updated =
                IF AskedDryRun THEN 0
                ELSE Cardinality(CategoryPositions(Rules, Batch))
          /\ Summary.updated <= Summary.matched

\* a real run in which one transaction got tags only and another a category too
C14_Witness ==
    /\ HasSummary
    /\ ~AskedDryRun
    /\ Summary.matched = 2
    /\ Summary.updated = 1
    /\ Cardinality(ReturnedCalls("set_transaction_tags")) = 2
    /\ \E i \in 1..Len(Batch) :
          /\ Matching(Rules, Batch[i]) # {}
          /\ DOMAIN Rules[Earliest(Rules, Batch[i])].actions = {"tag_ids"}

(* C15: at every point of the batch loop and in the summary matched is at     *)
(* most processed: matched is the number of transactions, among those counted  *)
(* so far, that some rule matches, however many rules match each of them.      *)
C15_MatchedAtMostProcessed ==
    HasCounters =>
        /\ Counters.matched <= Counters.processed
        /\ Counters.processed <= Len(Batch)
        /\ Counters.matched =
              Cardinality({i \in 1..Counters.processed : Matching(Rules, Batch[i]) # {}})

\* the loop is suspended in its second transaction, both matched so far, the
\* second one by two rules of the list
C15_Witness ==
    /\ tool_pc = "await"
    /\ "results" \in DOMAIN frame
    /\ frame.idx = 2
    /\ frame.results.processed = 2
    /\ frame.results.matched = 2
    /\ Cardinality(Matching(Rules, Batch[2])) >= 2

-----------------------------------------------------------------------------
(* Claims about the amount predicates, on one rule against one transaction *)

\* a one-rule request returned its summary for a one-transaction batch
OneOnOne == HasSummary /\ Len(Rules) = 1 /\ Len(Batch) = 1
\* the transaction's amount in thousandths, 0 when it has none
AmountOf(transaction) ==
    IF "amount" \in DOMAIN transaction THEN transaction.amount ELSE 0

(* C16: amount_equals holds exactly when the amount and the target differ by  *)
(* at most 0.01 (10 thousandths), a transaction without amount counting as 0.  *)
C16_AmountEqualsWithinTolerance ==
    (OneOnOne /\ DOMAIN Rules[1].conditions = {"amount_equals"}) =>
        ((Summary.matched = 1) <=>
            (AmountOf(Batch[1]) - Rules[1].conditions.amount_equals \in -10..10))

(* C17: amount_greater_than and amount_less_than are strict: alone, each      *)
(* matches exactly the amounts above (below) its target; an amount equal to    *)
(* the target of either fails the rule; and a rule with amount_greater_than X  *)
(* and amount_less_than Y, Y <= X, matches no transaction.                     *)
C17_StrictComparisons ==
    OneOnOne =>
        LET conditions == Rules[1].conditions
            amount == AmountOf(Batch[1])
        IN  /\ DOMAIN conditions = {"amount_greater_than"} =>
                  ((Summary.matched = 1) <=> (amount > conditions.amount_greater_than))
            /\ DOMAIN conditions = {"amount_less_than"} =>
                  ((Summary.matched = 1) <=> (amount < conditions.amount_less_than))
            /\ ("amount_greater_than" \in DOMAIN conditions
                /\ amount = conditions.amount_greater_than) => Summary.matched = 0
            /\ ("amount_less_than" \in DOMAIN conditions
                /\ amount = conditions.amount_less_than) => Summary.matched = 0
            /\ ({"amount_greater_than", "amount_less_than"} \subseteq DOMAIN conditions
                /\ conditions.amount_less_than <= conditions.amount_greater_than) =>
                   Summary.matched = 0

\* an amount equal to the target of amount_greater_than, the rule's only
\* predicate, did not match
C17_Witness ==
    /\ OneOnOne
    /\ DOMAIN Rules[1].conditions = {"amount_greater_than"}
    /\ AmountOf(Batch[1]) = Rules[1].conditions.amount_greater_than
    /\ Summary.matched = 0
    /\ Summary.processed = 1

(* C18: the upstream calls of apply_transaction_rules are made one at a time, *)
(* in transaction list order: only the last call of the request can be         *)
(* outstanding, and it is exactly while call_tool is suspended; the mutation   *)
(* calls follow the batch order, a transaction's update_transaction before its *)
(* set_transaction_tags, each issued after the one before it has returned.     *)
C18_SequentialMutations ==
    IsApply =>
        /\ \A i \in 1..(Len(calls) - 1) : calls[i].status = "returned"
        /\ tool_pc = "await" <=> (calls # <<>> /\ calls[Len(calls)].status = "pending")
        /\ (tool_pc = "await" /\ "idx" \in DOMAIN frame) =>
              /\ calls[Len(calls)].op \in Mutations
              /\ calls[Len(calls)].args.transaction_id = Batch[frame.idx].id
        /\ HasBatch => IsPrefix(IssuedMutations, MutationsFrom(Rules, Batch, 1))

\* suspended in set_transaction_tags for the second transaction, after its
\* update_transaction and the calls of the first transaction have returned
C18_Witness ==
    /\ IsApply
    /\ tool_pc = "await"
    /\ "idx" \in DOMAIN frame
    /\ frame.idx = 2
    /\ Len(calls) >= 4
    /\ calls[Len(calls)].op = "set_transaction_tags"
    /\ calls[Len(calls)].status = "pending"
    /\ calls[Len(calls) - 1].op = "update_transaction"
    /\ calls[Len(calls) - 1].status = "returned"
    /\ calls[Len(calls) - 1].args.transaction_id = calls[Len(calls)].args.transaction_id
    /\ calls[2].args.transaction_id = Batch[1].id
    /\ Batch[1].id # Batch[2].id

\* the keys of a conditions mapping that are none of the five predicate kinds
UnknownKeys(conditions) == DOMAIN conditions \ PredicateKinds

(* C19: unknown keys in a rule's conditions are ignored: with one present the *)
(* request still ends with a summary (no error), the rule matches exactly the  *)
(* transactions its known predicates accept, and a rule with unknown keys only *)
(* matches every transaction.                                                  *)
C19_UnknownKeysIgnored ==
    (IsApply /\ Ended /\ calls # <<>> /\ calls[1].status = "returned"
     /\ Len(Rules) = 1 /\ Len(Batch) = 1 /\ UnknownKeys(Rules[1].conditions) # {}) =>
        /\ HasSummary
        /\ (Summary.matched = 1) <=>
              \A key \in DOMAIN Rules[1].conditions \ UnknownKeys(Rules[1].conditions) :
                  PredicateHolds(key, Rules[1].conditions, Batch[1])
        /\ DOMAIN Rules[1].conditions = UnknownKeys(Rules[1].conditions) =>
              (Summary.matched = 1 /\ Len(Summary.rules_applied) = 1)

\* a rule whose conditions hold an unknown key only matched its transaction
C19_Witness ==
    /\ OneOnOne
    /\ DOMAIN Rules[1].conditions = {"category_is"}
    /\ Summary.matched = 1
    /\ Summary.rules_applied[1].transaction_id = Batch[1].id

-----------------------------------------------------------------------------
(* The get_accounts variants the test scripts expect *)

\* the client method test_optimizations.py expects for a detail_level
VariantOp(arguments) ==
    CASE Get(arguments, "detail_level", "full") = "basic" -> "get_accounts_basic"
      [] Get(arguments, "detail_level", "full") = "balance" -> "get_accounts_balance_only"
      [] OTHER -> "get_accounts"

(* C20: call_tool for get_accounts routes by detail_level: 'basic' calls      *)
(* get_accounts_basic once and returns its result, 'balance' calls             *)
(* get_accounts_balance_only once and returns its result, absent or 'full'     *)
(* calls get_accounts; no other variant method is called for the request.      *)
C20_DetailLevelRouting ==
    (request.name = "get_accounts" /\ mm_client # None
     /\ tool_pc \in {"await", "returned"}) =>
        /\ Len(calls) = 1
        /\ calls[1].op = VariantOp(request.arguments)
        /\ (Ended /\ calls[1].status = "returned") =>
              ReturnsResultOf(VariantOp(request.arguments))


-----------------------------------------------------------------------------
(* The performance tools the test scripts and the monitor expect *)

PerformanceTools == {"get_cache_metrics", "preload_cache"}

\* the phrase test_optimizations.py looks for in the fallback text; no fixed
\* part of a text of call_tool has it inside, so a text contains it exactly
\* when one of its parts is the phrase
NotAvailable == "not available"
MentionsNotAvailable ==
    /\ response.kind = "returned"
    /\ \E i \in 1..Len(response.content[1].parts) :
          response.content[1].parts[i] = NotAvailable

(* C21: with a client that has no get_cache_metrics and no preload_cache,     *)
(* call_tool for these two tools returns a text that contains 'not            *)
(* available'; it does not raise and the text is not an execution failure.    *)
C21_GracefulFallback ==
    (Ended /\ mm_client # None /\ request.name \in PerformanceTools) =>
        /\ response.kind = "returned"
        /\ MentionsNotAvailable
        /\ ~NamesTool("Error executing ")

(* C22: the catalog of list_tools holds get_cache_metrics and preload_cache,  *)
(* and a call_tool for get_cache_metrics calls the client's get_cache_metrics *)
(* exactly once and returns its result as JSON text.                          *)
C22_CacheMetricsTool ==
    /\ PerformanceTools \subseteq Catalog(variant)
    /\ (request.name = "get_cache_metrics" /\ mm_client # None
        /\ tool_pc \in {"await", "returned"}) =>
          /\ Len(calls) = 1
          /\ calls[1].op = "get_cache_metrics"
          /\ (Ended /\ calls[1].status = "returned") =>
                ReturnsResultOf("get_cache_metrics")


-----------------------------------------------------------------------------
(* The no-budgets case of get_budgets *)

(* C24: in the get_budgets branch of server_static an exception of the        *)
(* upstream call whose message contains 'Something went wrong while           *)
(* processing: None' becomes a normal response with an empty budgets list and *)
(* a 'No budgets configured' message; every other exception of the call is    *)
(* raised again and comes back as the 'Error executing get_budgets' text.     *)
C24_NoBudgetsIsNotAnError ==
    (Ended /\ variant = "server_static" /\ request.name = "get_budgets" /\ LastRaised) =>
        /\ response.kind = "returned"
        /\ Len(response.content) = 1
        /\ IF SaysNoBudgets(calls[Len(calls)].error)
           THEN /\ "json" \in DOMAIN response.content[1]
                /\ response.content[1].json =
                      [budgets |-> <<>>,
                       message |-> "No budgets configured in your Monarch Money account"]
           ELSE response.content[1] =
                   [parts |-> <<"Error executing ", "get_budgets", ": ",
                                calls[Len(calls)].error>>]

\* get_budgets raised a longer message that has the phrase inside and the
\* caller got the empty budgets list
C24_Witness ==
    /\ Ended
    /\ variant = "server_static"
    /\ request.name = "get_budgets"
    /\ LastRaised
    /\ calls[Len(calls)].error = "HTTP 400: Something went wrong while processing: None"
    /\ "json" \in DOMAIN response.content[1]
    /\ response.content[1].json.budgets = <<>>


-----------------------------------------------------------------------------
(* The guard of call_tool *)

(* C28: while mm_client is None, call_tool returns the single text            *)
(* 'Error: MonarchMoney client not initialized' for every tool name and every *)
(* arguments, issues no upstream call, and leaves mm_client and the session   *)
(* file as they were.                                                         *)
C28_UninitializedGuard ==
    /\ [](Ended /\ mm_client = None =>
             /\ response.kind = "returned"
             /\ Len(response.content) = 1
             /\ response.content[1] =
                   [parts |-> <<"Error: MonarchMoney client not initialized">>]
             /\ calls = <<>>)
    /\ [][(mm_client = None /\ tool_pc' = "returned") =>
             (mm_client' = None /\ session_file' = session_file)]_vars

\* a tool of the catalog, asked with arguments whose date does not parse,
\* was answered while mm_client was None
C28_Witness ==
    /\ Ended
    /\ mm_client = None
    /\ request.name = "create_transaction"
    /\ ~DatesParse(request.arguments)
    /\ session_file = "valid"
    /\ response.kind = "returned"


-----------------------------------------------------------------------------
(* Which transactions a batch mutates *)

\* the positions of the batch that hold the transaction id
PositionsOf(id) == {i \in 1..Len(Batch) : Batch[i].id = id}
\* the matched positions whose applied rule has no action
MatchedWithoutAction ==
    {i \in 1..Len(Batch) :
        /\ Matching(Rules, Batch[i]) # {}
        /\ DOMAIN Rules[Earliest(Rules, Batch[i])].actions = {}}
\* the mutation calls issued so far with one method for one transaction id
IssuedFor(op, id) ==
    {k \in 1..Len(IssuedMutations) :
        IssuedMutations[k].op = op /\ IssuedMutations[k].args.transaction_id = id}

(* C30: mutation calls are issued only for transactions a rule matched and    *)
(* carry that transaction's own id; a transaction no rule matched gets none;  *)
(* a transaction gets at most one update_transaction and at most one          *)
(* set_transaction_tags per batch; a matched rule without actions causes no   *)
(* mutation call and still counts in matched.                                 *)
C30_OnlyMatchedAreMutated ==
    HasBatch =>
        /\ \A k \in 1..Len(IssuedMutations) :
              \E i \in 1..Len(Batch) :
                  /\ Matching(Rules, Batch[i]) # {}
                  /\ DOMAIN Rules[Earliest(Rules, Batch[i])].actions # {}
                  /\ IssuedMutations[k].args.transaction_id = Batch[i].id
        /\ \A op \in Mutations : \A i \in 1..Len(Batch) :
              Cardinality(IssuedFor(op, Batch[i].id)) <=
                  Cardinality(PositionsOf(Batch[i].id))
        /\ HasSummary =>
              Summary.matched = Len(MatchedPositions(Rules, Batch))

\* a real run ended on a batch of two transactions: one matched a rule
\* without actions, was counted and got no call; the other got its update
C30_Witness ==
    /\ HasBatch
    /\ HasSummary
    /\ ~AskedDryRun
    /\ Len(Batch) = 2
    /\ MatchedWithoutAction = {1}
    /\ Summary.matched = 2
    /\ Len(IssuedMutations) = 1
    /\ IssuedMutations[1].args.transaction_id = Batch[2].id


-----------------------------------------------------------------------------
(* The global handle after a failed initialization *)

(* C27: mm_client is non-None only when initialization completed: after an    *)
(* initialize_client run that failed because login or save_session raised,    *)
(* mm_client is still None, and a call_tool made then is answered with the    *)
(* 'client not initialized' text.                                             *)
C27_HandleOnlyAfterSuccess ==
    init_pc = "raised" =>
        /\ mm_client = None
        /\ Ended =>
              /\ calls = <<>>
              /\ ReturnedParts(<<"Error: MonarchMoney client not initialized">>)


-----------------------------------------------------------------------------
(* What convert_dates_to_strings keeps and what it replaces *)

\* `out` has the shape of `inp` (same keys, same lengths, same container
\* kinds), a string where `inp` has a date or datetime, and the same leaf
\* everywhere else
RECURSIVE SameButDates(_, _)
SameButDates(inp, out) ==
    CASE inp.kind \in {"date", "datetime"} -> out.kind = "str"
      [] inp.kind = "dict" ->
            /\ out.kind = "dict"
            /\ DOMAIN out.items = DOMAIN inp.items
            /\ \A key \in DOMAIN inp.items : SameButDates(inp.items[key], out.items[key])
      [] inp.kind \in {"list", "tuple"} ->
            /\ out.kind = inp.kind
            /\ Len(out.items) = Len(inp.items)
            /\ \A i \in 1..Len(inp.items) : SameButDates(inp.items[i], out.items[i])
      [] OTHER -> out = inp

\* the kinds of the values found at any depth of an object
RECURSIVE KindsIn(_)
KindsIn(obj) ==
    {obj.kind} \cup
    (CASE obj.kind = "dict" -> UNION {KindsIn(obj.items[key]) : key \in DOMAIN obj.items}
       [] obj.kind \in {"list", "tuple"} ->
             UNION {KindsIn(obj.items[i]) : i \in 1..Len(obj.items)}
       [] OTHER -> {})

(* C23: for every object built from dicts, lists and tuples, the result of    *)
(* convert_dates_to_strings has the shape of the input (same keys, lengths    *)
(* and container kinds), holds no date or datetime at any depth, has every    *)
(* other leaf unchanged, and is left unchanged by a second application.       *)
C23_DatesBecomeStrings ==
    /\ (converted.on /\ converted.at \in {"once", "twice"}) =>
          /\ SameButDates(converted.obj, converted.result)
          /\ KindsIn(converted.result) \cap {"date", "datetime"} = {}
    /\ (converted.on /\ converted.at = "twice") =>
          converted.again = converted.result

\* applied twice to a dict that holds a tuple with a date two levels down
C23_Witness ==
    /\ converted.on
    /\ converted.at = "twice"
    /\ converted.obj.kind = "dict"
    /\ \E key \in DOMAIN converted.obj.items :
          /\ converted.obj.items[key].kind = "list"
          /\ "tuple" \in KindsIn(converted.obj.items[key])
          /\ "date" \in KindsIn(converted.obj.items[key])
    /\ converted.result # converted.obj


-----------------------------------------------------------------------------
(* The monitor's history, its stop flag and its analysis *)

\* an iteration of monitor_loop has got past its collection
IterationDone == monitor.on /\ monitor.last.done
\* the iteration collected a sample (collect_metrics did not return None)
Collected == IterationDone /\ monitor.last.metrics # [kind |-> "none"]
\* analyze_metrics returned an analysis in the iteration
Analysed ==
    /\ Collected
    /\ "analysis" \in DOMAIN monitor.last
    /\ ~monitor.last.analysis.raised

C26_StopIsHonoured ==
    monitor.on =>
        /\ monitor.stopped => ~monitor.began_after_stop
        /\ monitor.at = "exited" => ~monitor.running
        /\ monitor.at = "backoff" => monitor.running \/ monitor.stopped

(* C29: in every analysis of analyze_metrics the status is 'healthy' exactly  *)
(* when the alerts list is empty.                                             *)
C29_HealthyIffNoAlerts ==
    Analysed =>
        (monitor.last.analysis.status = "healthy" <=> monitor.last.analysis.alerts = <<>>)

====
